---- MODULE Spec2Model ----
(***************************************************************************)
(* Tracking core of VisionSystem.tsx: the track registry, the association  *)
(* pass (handleWorkerPredictions), the render tick                         *)
(* (updateVisualsAndPhysics), the scene-change detector (checkSceneChange) *)
(* the rapid-motion flag, the capture loop (sendFrame) with the worker     *)
(* channel, the start of the loops, and the geometry estimator             *)
(* (calculate3DPosition).                                                  *)
(*                                                                         *)
(* Units.  Time is in milliseconds (Date.now()).  Pixel coordinates are    *)
(* integers; the exponential smoothing of a box rounds to the nearest      *)
(* pixel (fixed-point stand-in for the IEEE rounding of the code).         *)
(* Scores are in hundredths (20 = 0.2).  Opacity is in millionths, rounded *)
(* down from the IEEE double the code holds (see DecayStep).  JPEG and      *)
(* network quality are in thousandths.  Distances are in centimetres, screen *)
(* fractions and scale factors in ten-thousandths, tangents in thousandths. *)
(***************************************************************************)
EXTENDS Integers, Sequences, FiniteSets, TLC

\* ---------------------------------------------------------------- bounds
MaxId == 2          \* ids the counter may hand out
Horizon == 1000     \* milliseconds of clock explored after mount

MaxInFlight == 2    \* detect requests the channel may hold
MaxBitmaps == 2     \* bitmaps sendFrame may create

\* ------------------------------------------------------ program constants
ConfidenceFloor == 20
AssociationGate == 200
LostThreshold == 500
EvictOpacity == 50000
FullOpacity == 1000000
SceneDebounce == 2000
FirstId == 1
CaptureInterval == 1000
MotionJpgQuality == 300

\* Date.now() at mount: an epoch time, far above the debounce window.
Epoch == 5000
MaxTime == Epoch + Horizon
\* Clock advances observed between two handlers: none, exactly the lost
\* threshold, or twice the lost threshold.
Delays == {0, 500, 1000}

\* ----------------------------------------------------------------- inputs
\* scaleFactor = video.videoWidth / ANALYSIS_WIDTH
ScaleFactors == {2}

\* Predictions the worker can post (class, score, bbox in analysis pixels,
\* gesture).  "undefined" is the absent gesture of a coco-ssd object.
Prediction(c, s, b, g) == [class |-> c, score |-> s, bbox |-> b, gesture |-> g]

BoxP == <<100, 150, 20, 40>>
BoxQ == <<101, 151, 21, 41>>     \* next to BoxP
BoxR == <<20, 210, 20, 40>>      \* scaled corner exactly 200 from BoxP's

PersonP == Prediction("person", 90, BoxP, "undefined")
PersonQ == Prediction("person", 90, BoxQ, "undefined")
PersonR == Prediction("person", 20, BoxR, "undefined")
PersonLow == Prediction("person", 19, BoxP, "undefined")
HandP == Prediction("hand", 90, BoxP, "FIST")
HandLow == Prediction("hand", 10, BoxQ, "OPEN PALM")

\* Batches of the lifecycle specification: one location, two classes.
LifeBatches ==
    { <<>>, <<PersonP>>, <<HandP>>, <<PersonP, PersonP>>, <<PersonP, HandP>> }

\* Batches of the association specification: near and far boxes, scores on
\* both sides of the floor.
AssocBatches ==
    { <<>>, <<PersonP>>, <<PersonQ>>, <<PersonR>>, <<HandP>>, <<PersonLow>>,
      <<PersonP, PersonP>>, <<PersonP, PersonQ>>, <<PersonQ, PersonR>>,
      <<PersonLow, PersonP>>, <<HandLow, PersonQ>>, <<HandP, PersonP>> }

\* Detections with a box of no area or a class of no name, and the batches
\* of the intake specification that carry them.
BoxFlat == <<100, 150, 20, 0>>
PersonFlat == Prediction("person", 90, BoxFlat, "undefined")
Nameless == Prediction("", 90, BoxP, "undefined")

IntakeBatches ==
    { <<>>, <<PersonP>>, <<HandP>>, <<PersonFlat>>, <<Nameless>>,
      <<PersonP, PersonFlat>> }

VARIABLES
    now,                    \* last value read from Date.now()
    trackersRef,            \* id -> TrackerState
    labelsRef,              \* ids that own a label group
    nextIdRef,
    lastObjectSetRef,       \* last signature (sorted classes)
    lastAnalysisTimeRef,
    isMovingFastRef,
    processingIntervalRef,
    sceneTimers,            \* pending setTimeout(.., 0) callbacks of checkSceneChange
    sceneDescription,       \* what onSceneChange last received
    nextLocalObjects,       \* ids in the output list of the last tick
    ev,                     \* history: the last handler, its inputs and outcome
    assigned,               \* history: every id handed out so far
    stream,                 \* history: is the run so far a one-detection stream
    networkQualityRef,
    lastCaptureTimeRef,
    sendFramePc,            \* where sendFrame stands: "off", "idle" or "await"
    inFlight,               \* detect requests posted whose handling has not ended
    motionTimers,           \* pending setTimeout(.., 500) callbacks of sendFrame
    sceneRef,               \* sceneRef.current is set (initThreeJS has run)
    renderLoops,            \* renderLoop chains kept alive by requestAnimationFrame
    sourceOffline,          \* environment: the worker has stopped answering
    sceneHist,              \* history: the scene reports and signature changes so far
    geoIn,                  \* arguments of calculate3DPosition
    geoOut,                 \* its result
    smooth,                 \* one smoothed coordinate with its target
    zoomState,              \* App: the zoom level in tenths, and whether the zoom
                            \* effect of VisionSystem has yet to run for it
    cameraFov,              \* cameraRef.current?.fov || 75, in thousandths of a degree
    analysisMode,           \* App: the analysis mode the user has chosen
    net,                    \* the NetworkService of App and the sockets it created
    live,                   \* App: the live session refs and the sessions created
    worker                  \* the detection worker, its requests and its replies

\* The capture loop, its timers and the loop bookkeeping.
captureVars == << networkQualityRef, lastCaptureTimeRef, sendFramePc,
                  motionTimers, sceneRef, renderLoops >>

\* Environment and estimator variables.
\* State outside the tracking core.
appVars == << smooth, zoomState, cameraFov, analysisMode >>

sideVars == << sourceOffline, geoIn, geoOut, appVars, net, live >>

vars == << now, trackersRef, labelsRef, nextIdRef, lastObjectSetRef,
           lastAnalysisTimeRef, isMovingFastRef, processingIntervalRef,
           sceneTimers, sceneDescription, nextLocalObjects, ev, assigned, stream,
           captureVars, inFlight, sideVars, sceneHist, worker >>

\* --------------------------------------------------------------- helpers
Min(S) == CHOOSE x \in S : \A y \in S : x <= y

\* Map and Set iterate in insertion order; ids are inserted in increasing
\* order, so iteration is by ascending id.
RECURSIVE InOrder(_)
InOrder(S) ==
    IF S = {} THEN <<>>
    ELSE LET m == Min(S) IN <<m>> \o InOrder(S \ {m})

\* n / d rounded to the nearest integer.
RoundDiv(n, d) ==
    IF n >= 0 THEN (2 * n + d) \div (2 * d)
    ELSE -((2 * (-n) + d) \div (2 * d))

\* '' < 'hand' < 'person' in the default Array.prototype.sort order.
ClassRank(c) == IF c = "" THEN 0 ELSE IF c = "hand" THEN 1 ELSE 2

RECURSIVE SortClasses(_)
SortClasses(cs) ==
    IF cs = <<>> THEN <<>>
    ELSE LET i == CHOOSE k \in 1..Len(cs) :
                    \A j \in 1..Len(cs) :
                        \/ ClassRank(cs[k]) < ClassRank(cs[j])
                        \/ (ClassRank(cs[k]) = ClassRank(cs[j]) /\ k <= j)
             rest == [j \in 1..(Len(cs) - 1) |-> IF j < i THEN cs[j] ELSE cs[j + 1]]
         IN  <<cs[i]>> \o SortClasses(rest)

\* History record of one handler run: its kind, the batch and scale factor
\* it received, the outcome of each prediction, the tracks a tick removed,
\* and the registry as the pass found it.
Event(k, ps, sf, lg, rm, bf) ==
    [kind |-> k, preds |-> ps, scaleFactor |-> sf, log |-> lg, removed |-> rm,
     before |-> bf]

Outcome(o, id) == [outcome |-> o, id |-> id]

NoRegistry == << >>

\* ------------------------------------------------- updateNetworkStats
\* navigator.connection.downlink (Mbps) as seen by updateNetworkStats;
\* NoConnection when the browser has no navigator.connection.
NoConnection == -1
FastLink == 10
Downlinks == {NoConnection, 1, 3, FastLink}

\* networkQualityRef = useRef(1.0), in thousandths
UnsetQuality == 1000

BaseInterval(isMobile) == IF isMobile THEN 300 ELSE 150

\* processingIntervalRef after updateNetworkStats (baseInterval * 1.5 is
\* 225 or 450, both integers).
IntervalFor(isMobile, down) ==
    IF down = NoConnection THEN BaseInterval(isMobile)
    ELSE IF down < 2 THEN BaseInterval(isMobile) * 2
    ELSE IF down < 5 THEN (BaseInterval(isMobile) * 3) \div 2
    ELSE BaseInterval(isMobile)

\* networkQualityRef after updateNetworkStats, in thousandths; untouched
\* when the browser has no navigator.connection.
QualityFor(down, quality) ==
    IF down = NoConnection THEN quality
    ELSE IF down < 2 THEN 300
    ELSE IF down < 5 THEN 600
    ELSE 800

\* ------------------------------------------------------ association pass
NoId == 0      \* bestId = null (falsy, like every value `if(bestId)` rejects)

\* if (pred.score < 0.2) return;
AcceptsAboveFloorOnly(pred) == pred.score > ConfidenceFloor
Accepts(pred) == ~(pred.score < ConfidenceFloor)

ScaleBox(bbox, sf) == [i \in 1..4 |-> bbox[i] * sf]

\* Square of the corner distance Math.sqrt(dx^2 + dy^2).  The code compares
\* the roots; on these integer values comparing the squares is the same.
DistSq(sb, box) ==
    (sb[1] - box[1]) * (sb[1] - box[1]) + (sb[2] - box[2]) * (sb[2] - box[2])

\* if (t.class !== pred.class) return;
SameClassAlways(t, cls) == TRUE
SameClass(t, cls) == t.class = cls

\* if (dist < bestDist)
NearerOrEqual(d, bestDistSq) == d <= bestDistSq
Nearer(d, bestDistSq) == d < bestDistSq

\* availableTrackers.forEach: keep the candidate strictly nearer than the
\* best so far, starting from bestDist = 200.
RECURSIVE BestMatch(_, _, _, _, _)
BestMatch(order, trackers, cls, sb, best) ==
    IF order = <<>> THEN best
    ELSE LET tid == Head(order)
             t == trackers[tid]
             d == DistSq(sb, t.lockedBox)
             nb == IF SameClass(t, cls) /\ Nearer(d, best.distSq)
                   THEN [id |-> tid, distSq |-> d]
                   ELSE best
         IN  BestMatch(Tail(order), trackers, cls, sb, nb)

LerpFactor(interval) == IF interval > 300 THEN 5 ELSE 4     \* tenths

\* old += (target - old) * factor, the factor in tenths
LerpJump(old, target, f10) == target
Lerp(old, target, f10) == old + RoundDiv((target - old) * f10, 10)

NewTracker(id, pred, sb, t) ==
    [id |-> id, class |-> pred.class, lastSeenTime |-> t, consecutiveMisses |-> 0,
     opacity |-> FullOpacity, lockedBox |-> sb, gesture |-> pred.gesture]

MatchTrackerKeepsOpacity(tr, pred, sb, t, f10) ==
    [tr EXCEPT !.lockedBox = [i \in 1..4 |-> Lerp(tr.lockedBox[i], sb[i], f10)],
               !.lastSeenTime = t,
               !.consecutiveMisses = 0,
               !.gesture = pred.gesture]
MatchTracker(tr, pred, sb, t, f10) ==
    [tr EXCEPT !.lockedBox = [i \in 1..4 |-> Lerp(tr.lockedBox[i], sb[i], f10)],
               !.lastSeenTime = t,
               !.consecutiveMisses = 0,
               !.gesture = pred.gesture,
               !.opacity = FullOpacity]

\* availableTrackers.delete(bestId)
AvailableAfterMatchKept(available, id) == available
AvailableAfterMatch(available, id) == available \ {id}

\* availableTrackers is built before the loop and only ever shrinks: a new
\* id is added to activeIds, not to it.
AvailableAfterCreateAdded(available, id) == available \cup {id}
AvailableAfterCreate(available, id) == available

\* trackersRef.current.set(newId, {..})
SetTrackerAlone(trackers, id, tr) == (id :> tr)
SetTracker(trackers, id, tr) == (id :> tr) @@ trackers

\* nextIdRef.current++
NextIdAfterReuse(n) == n
NextIdAfter(n) == n + 1

\* Body of predictions.forEach for one prediction.  st carries the registry,
\* the labels, the id counter, availableTrackers, currentClasses and the log.
ProcessPred(st, pred, sf, t, f10) ==
    IF ~Accepts(pred)
    THEN [st EXCEPT !.log = Append(@, Outcome("dropped", NoId))]
    ELSE LET sb == ScaleBox(pred.bbox, sf)
             best == BestMatch(InOrder(st.available), st.trackers, pred.class, sb,
                               [id |-> NoId, distSq |-> AssociationGate * AssociationGate])
         IN  IF best.id # NoId
             THEN [st EXCEPT
                     !.trackers[best.id] = MatchTracker(@, pred, sb, t, f10),
                     !.available = AvailableAfterMatch(@, best.id),
                     !.classes = Append(@, pred.class),
                     !.log = Append(@, Outcome("matched", best.id))]
             ELSE [st EXCEPT
                     !.trackers = SetTracker(@, st.nextId,
                                             NewTracker(st.nextId, pred, sb, t)),
                     !.labels = @ \cup {st.nextId},
                     !.available = AvailableAfterCreate(@, st.nextId),
                     !.nextId = NextIdAfter(@),
                     !.classes = Append(@, pred.class),
                     !.log = Append(@, Outcome("created", st.nextId))]

RECURSIVE ProcessAll(_, _, _, _, _)
ProcessAll(st, preds, sf, t, f10) ==
    IF preds = <<>> THEN st
    ELSE ProcessAll(ProcessPred(st, Head(preds), sf, t, f10), Tail(preds), sf, t, f10)

\* checkSceneChange: result is the new (lastObjectSetRef, lastAnalysisTimeRef,
\* sceneTimers).
\* if (now - lastAnalysisTimeRef.current < 2000) return;
DebouncedNever(t, last) == FALSE
Debounced(t, last) == t - last < SceneDebounce

CheckSceneChange(classes, t) ==
    IF Debounced(t, lastAnalysisTimeRef)
    THEN [sig |-> lastObjectSetRef, time |-> lastAnalysisTimeRef, timers |-> sceneTimers]
    ELSE LET sig == SortClasses(classes)
         IN  IF sig # lastObjectSetRef
             THEN [sig |-> sig, time |-> t, timers |-> Append(sceneTimers, sig)]
             ELSE [sig |-> lastObjectSetRef, time |-> t, timers |-> sceneTimers]

\* The one-detection stream: every pass so far delivered exactly this batch.
StreamBatch == <<PersonP>>

\* handleWorkerPredictions(predictions, scaleFactor), called by
\* worker.onmessage for a 'result' message.  The message channel (inFlight)
\* and the scene history are set by the step that delivers the message.
HandleWorkerPredictions(dt, preds, sf) ==
    /\ now' = now + dt
    /\ IF isMovingFastRef
       THEN /\ ev' = Event("discarded", preds, sf, <<>>, {}, NoRegistry)
            /\ stream' = "off"
            /\ UNCHANGED << trackersRef, labelsRef, nextIdRef, lastObjectSetRef,
                            lastAnalysisTimeRef, sceneTimers, assigned >>
       ELSE LET st0 == [trackers |-> trackersRef, labels |-> labelsRef,
                        nextId |-> nextIdRef, available |-> DOMAIN trackersRef,
                        classes |-> <<>>, log |-> <<>>]
                st == ProcessAll(st0, preds, sf, now', LerpFactor(processingIntervalRef))
                sc == CheckSceneChange(st.classes, now')
            IN  /\ st.nextId <= MaxId + 1
                /\ trackersRef' = st.trackers
                /\ labelsRef' = st.labels
                /\ nextIdRef' = st.nextId
                /\ lastObjectSetRef' = sc.sig
                /\ lastAnalysisTimeRef' = sc.time
                /\ sceneTimers' = sc.timers
                /\ ev' = Event("pass", preds, sf, st.log, {}, trackersRef)
                /\ assigned' = assigned \cup
                       { st.log[i].id : i \in { j \in 1..Len(st.log) :
                                                  st.log[j].outcome = "created" } }
                /\ stream' = IF stream # "off" /\ preds = StreamBatch THEN "on" ELSE "off"
    /\ UNCHANGED << isMovingFastRef, processingIntervalRef, sceneDescription,
                    nextLocalObjects, captureVars, sideVars >>

\* ------------------------------------------------------------ render tick
\* tracker.opacity -= 0.05 in IEEE doubles, starting from 1.0:
\*   1.0, 0.95, 0.8999999999999999, 0.8499999999999999, ...,
\*   0.09999999999999969, 0.049999999999999684, -3.19e-16
\* in millionths, rounded down.
DecayStepUp(o) == o + 50000
DecayStep(o) == IF o = 950000 THEN 899999 ELSE o - 50000

\* const isLost = now - tracker.lastSeenTime > 500;
IsLostInclusive(tr, t) == t - tr.lastSeenTime >= LostThreshold
IsLostSwapped(tr, t) == tr.lastSeenTime - t > LostThreshold
IsLost(tr, t) == t - tr.lastSeenTime > LostThreshold

\* if (isLost) tracker.opacity -= 0.05;
TickOpacityAlways(tr, t) == DecayStep(tr.opacity)
TickOpacity(tr, t) == IF IsLost(tr, t) THEN DecayStep(tr.opacity) ELSE tr.opacity

\* if (tracker.opacity < 0.05 && isLost) { removeTracker(tracker.id); return; }
EvictsWhenLost(tr, t) == IsLost(tr, t)
Evicts(tr, t) == TickOpacity(tr, t) < EvictOpacity /\ IsLost(tr, t)

\* removeTracker: labelsRef.current.delete(id)
LabelsAfterRemoveKept(labels, removed) == labels
LabelsAfterRemove(labels, removed) == labels \ removed

\* renderLoop -> updateVisualsAndPhysics, with removeTracker
UpdateVisualsAndPhysics(dt) ==
    /\ renderLoops > 0
    /\ now' = now + dt
    /\ LET removed == { id \in DOMAIN trackersRef : Evicts(trackersRef[id], now') }
           kept == DOMAIN trackersRef \ removed
       IN  /\ trackersRef' = [id \in kept |->
                                [trackersRef[id] EXCEPT
                                    !.opacity = TickOpacity(trackersRef[id], now')]]
           /\ labelsRef' = LabelsAfterRemove(labelsRef, removed)
           /\ nextLocalObjects' = kept
           /\ ev' = Event("tick", <<>>, 0, <<>>, removed, NoRegistry)
    /\ stream' = IF stream = "on" /\ ev.kind # "pass" THEN "off" ELSE stream
    /\ UNCHANGED << nextIdRef, lastObjectSetRef, lastAnalysisTimeRef, isMovingFastRef,
                    processingIntervalRef, sceneTimers, sceneDescription, assigned,
                    captureVars, inFlight, sideVars, sceneHist, worker >>

\* ------------------------------------------------------- other handlers
\* sendFrame reduced to its effect on the rapid-motion flag: a capture
\* found motion while the flag was clear.
MotionDetected ==
    /\ ~isMovingFastRef
    /\ isMovingFastRef' = TRUE
    /\ motionTimers' = motionTimers + 1
    /\ ev' = Event("motion", <<>>, 0, <<>>, {}, NoRegistry)
    /\ UNCHANGED << now, trackersRef, labelsRef, nextIdRef, lastObjectSetRef,
                    lastAnalysisTimeRef, processingIntervalRef, sceneTimers,
                    sceneDescription, nextLocalObjects, assigned, stream,
                    networkQualityRef, lastCaptureTimeRef, sendFramePc, inFlight,
                    sceneRef, renderLoops, sideVars, sceneHist, worker >>

\* setTimeout(() => { isMovingFastRef.current = false; }, 500)
MotionTimeout ==
    /\ motionTimers > 0
    /\ motionTimers' = motionTimers - 1
    /\ isMovingFastRef' = FALSE
    /\ ev' = Event("motionTimeout", <<>>, 0, <<>>, {}, NoRegistry)
    /\ UNCHANGED << now, trackersRef, labelsRef, nextIdRef, lastObjectSetRef,
                    lastAnalysisTimeRef, processingIntervalRef, sceneTimers,
                    sceneDescription, nextLocalObjects, assigned, stream,
                    networkQualityRef, lastCaptureTimeRef, sendFramePc, inFlight,
                    sceneRef, renderLoops, sideVars, sceneHist, worker >>

\* navigator.connection 'change' -> updateNetworkStats
UpdateNetworkStats(isMobile, down) ==
    /\ processingIntervalRef' = IntervalFor(isMobile, down)
    /\ networkQualityRef' = QualityFor(down, networkQualityRef)
    /\ << processingIntervalRef', networkQualityRef' >> #
           << processingIntervalRef, networkQualityRef >>
    /\ ev' = Event("network", <<>>, 0, <<>>, {}, NoRegistry)
    /\ UNCHANGED << now, trackersRef, labelsRef, nextIdRef, lastObjectSetRef,
                    lastAnalysisTimeRef, isMovingFastRef, sceneTimers,
                    sceneDescription, nextLocalObjects, assigned, stream,
                    lastCaptureTimeRef, sendFramePc, inFlight, motionTimers,
                    sceneRef, renderLoops, sideVars, sceneHist, worker >>

\* useState<AnalysisMode>('AUTO')
DefaultAnalysisMode == "AUTO"

\* p === 'AUTO' ? 'DETAILED' : p === 'DETAILED' ? 'SILENT' : 'AUTO'
NextAnalysisMode(p) ==
    IF p = "AUTO" THEN "DETAILED" ELSE IF p = "DETAILED" THEN "SILENT" ELSE "AUTO"

\* The analysisMode the timer callback reads.  The callback is created by
\* checkSceneChange, which handleWorkerPredictions calls, which worker.onmessage
\* calls; worker.onmessage is assigned once, in an effect with no
\* dependencies, so all three are the functions of the first render of
\* VisionSystem, and their analysisMode is the prop of that render.  App
\* renders VisionSystem from its own first render on.
MountedAnalysisMode == DefaultAnalysisMode

\* analysisMode === 'AUTO' || analysisMode === 'DETAILED'
Summarises(mode) == mode \in {"AUTO", "DETAILED"}

\* The deferred callback of checkSceneChange: onSceneChange(summary).  The
\* summary counts the classes of the sorted list; it is "scanning" when the
\* list is empty.
SceneTimerFire ==
    /\ sceneTimers # <<>>
    /\ sceneDescription' =
          IF Summarises(MountedAnalysisMode)
          THEN [kind |-> IF Head(sceneTimers) = <<>> THEN "scanning"
                         ELSE "dynamics",
                classes |-> Head(sceneTimers)]
          ELSE sceneDescription
    /\ sceneTimers' = Tail(sceneTimers)
    /\ ev' = Event("sceneTimer", <<>>, 0, <<>>, {}, NoRegistry)
    /\ UNCHANGED << now, trackersRef, labelsRef, nextIdRef, lastObjectSetRef,
                    lastAnalysisTimeRef, isMovingFastRef, processingIntervalRef,
                    nextLocalObjects, assigned, stream, captureVars, inFlight, sideVars,
                    sceneHist, worker >>

\* The signature of a batch: the sorted classes of its accepted detections.
RECURSIVE AcceptedClasses(_)
AcceptedClasses(preds) ==
    IF preds = <<>> THEN <<>>
    ELSE IF Accepts(Head(preds))
         THEN <<Head(preds).class>> \o AcceptedClasses(Tail(preds))
         ELSE AcceptedClasses(Tail(preds))

BatchSignature(preds) == SortClasses(AcceptedClasses(preds))

\* A pass together with the scene history: the reports scheduled so far,
\* each with the time of its pass and the class list its callback holds,
\* and the last pass whose signature differed from the recorded one.
ScenePass(dt, preds, sf) ==
    /\ HandleWorkerPredictions(dt, preds, sf)
    /\ UNCHANGED << inFlight, worker >>
    /\ LET differs == ev'.kind = "pass" /\ BatchSignature(preds) # lastObjectSetRef
           emitted == Len(sceneTimers') > Len(sceneTimers)
       IN  sceneHist' =
             [reports |-> IF emitted
                          THEN Append(sceneHist.reports,
                                      [time |-> now',
                                       classes |-> sceneTimers'[Len(sceneTimers')]])
                          ELSE sceneHist.reports,
              changed |-> sceneHist.changed \/ differs,
              changeTime |-> IF differs THEN now' ELSE sceneHist.changeTime,
              changeEmitted |-> IF differs THEN emitted ELSE sceneHist.changeEmitted]

\* ---------------------------------------------------------- capture loop
\* History record of one run of sendFrame past its await.
CaptureEvent(posted, captured, moving, quality) ==
    [kind |-> "sendFrame", preds |-> <<>>, scaleFactor |-> 0, log |-> <<>>,
     removed |-> {}, before |-> NoRegistry, posted |-> posted,
     captured |-> captured, moving |-> moving, jpgQuality |-> quality]

\* if (!sceneRef.current) { initThreeJS(); startLoops(); }
StartsLoopsAlways(scene) == TRUE
StartsLoops(scene) == ~scene

\* switchCamera once the stream plays, on a mounted component (containerRef
\* is set): initThreeJS sets sceneRef, startLoops calls sendFrame and
\* renderLoop.
SwitchCamera ==
    /\ IF StartsLoops(sceneRef)
       THEN /\ sceneRef' = TRUE
            /\ renderLoops' = renderLoops + 1
            /\ sendFramePc' = "idle"
       ELSE UNCHANGED << sceneRef, renderLoops, sendFramePc >>
    /\ ev' = Event("camera", <<>>, 0, <<>>, {}, NoRegistry)
    /\ UNCHANGED << now, trackersRef, labelsRef, nextIdRef, lastObjectSetRef,
                    lastAnalysisTimeRef, isMovingFastRef, processingIntervalRef,
                    sceneTimers, sceneDescription, nextLocalObjects, assigned,
                    stream, networkQualityRef, lastCaptureTimeRef, motionTimers,
                    inFlight, sideVars, sceneHist, worker >>

\* sendFrame up to `await createImageBitmap(..)`, on a video that is ready.
SendFrameBegin ==
    /\ sendFramePc = "idle"
    /\ sendFramePc' = "await"
    /\ ev' = Event("sendFrameBegin", <<>>, 0, <<>>, {}, NoRegistry)
    /\ UNCHANGED << now, trackersRef, labelsRef, nextIdRef, lastObjectSetRef,
                    lastAnalysisTimeRef, isMovingFastRef, processingIntervalRef,
                    sceneTimers, sceneDescription, nextLocalObjects, assigned,
                    stream, networkQualityRef, lastCaptureTimeRef, motionTimers,
                    sceneRef, renderLoops, inFlight, sideVars, sceneHist >>

\* if (!isMovingFastRef.current) workerRef.current.postMessage(..) else bitmap.close()
PostsRequestAlways(moving) == TRUE
PostsRequest(moving) == ~moving

\* const jpgQuality = isMoving ? 0.3 : (networkQualityRef.current * 0.7), in thousandths
JpgQuality(isMoving, quality) ==
    IF isMoving THEN MotionJpgQuality ELSE (quality * 7) \div 10

\* sendFrame from the await to its end.  bitmapOk: createImageBitmap
\* resolved (otherwise the catch swallows the error and nothing is posted);
\* isMoving: what detectMotion returns, false on the first capture, which
\* has no previous frame.  onFrameCapture is always supplied.
SendFrameResume(dt, bitmapOk, isMoving) ==
    /\ sendFramePc = "await"
    /\ now' = now + dt
    /\ LET posted == bitmapOk /\ PostsRequest(isMovingFastRef)
           captured == now' - lastCaptureTimeRef > CaptureInterval
       IN  /\ isMoving => (captured /\ lastCaptureTimeRef # 0)
           /\ posted => inFlight < MaxInFlight
           /\ inFlight' = IF posted THEN inFlight + 1 ELSE inFlight
           /\ isMovingFastRef' = IF isMoving THEN TRUE ELSE isMovingFastRef
           /\ motionTimers' = IF isMoving THEN motionTimers + 1 ELSE motionTimers
           /\ lastCaptureTimeRef' = IF captured THEN now' ELSE lastCaptureTimeRef
           /\ ev' = CaptureEvent(posted, captured, isMoving,
                                 IF captured THEN JpgQuality(isMoving, networkQualityRef)
                                 ELSE 0)
    /\ sendFramePc' = "idle"
    /\ UNCHANGED << trackersRef, labelsRef, nextIdRef, lastObjectSetRef,
                    lastAnalysisTimeRef, processingIntervalRef, sceneTimers,
                    sceneDescription, nextLocalObjects, assigned, stream,
                    networkQualityRef, sceneRef, renderLoops, sideVars, sceneHist >>

\* worker.onmessage, type 'result': the answer to a detect request arrives.
WorkerResult(preds, sf) ==
    /\ inFlight > 0
    /\ inFlight' = inFlight - 1
    /\ HandleWorkerPredictions(0, preds, sf)
    /\ UNCHANGED << sceneHist, worker >>

\* The worker ends a detect request without a message: the models are not
\* loaded yet, or the inference threw and the result is null.
WorkerNoResult ==
    /\ inFlight > 0
    /\ inFlight' = inFlight - 1
    /\ ev' = Event("noResult", <<>>, 0, <<>>, {}, NoRegistry)
    /\ UNCHANGED << now, trackersRef, labelsRef, nextIdRef, lastObjectSetRef,
                    lastAnalysisTimeRef, isMovingFastRef, processingIntervalRef,
                    sceneTimers, sceneDescription, nextLocalObjects, assigned,
                    stream, captureVars, sideVars, sceneHist, worker >>

\* The worker stops answering: its detect handler returns without a result
\* (models not loaded, or the inference threw and the result is null), so
\* no 'result' message is posted from here on.
SourceGoesOffline ==
    /\ ~sourceOffline
    /\ sourceOffline' = TRUE
    /\ ev' = Event("offline", <<>>, 0, <<>>, {}, NoRegistry)
    /\ UNCHANGED << now, trackersRef, labelsRef, nextIdRef, lastObjectSetRef,
                    lastAnalysisTimeRef, isMovingFastRef, processingIntervalRef,
                    sceneTimers, sceneDescription, nextLocalObjects, assigned,
                    stream, captureVars, inFlight, net, live, geoIn, geoOut, appVars,
                    sceneHist, worker >>

\* ------------------------------------------------------ geometry estimator
\* No arguments yet, no results yet.
NoInput == << >>

\* getRealWorldHeight, in centimetres.  The keys are looked up by the
\* lower-cased class name; a class without an entry stands 0.5 m tall.
HeightTable ==
    [ person |-> 170, cup |-> 15, bottle |-> 25, wine_glass |-> 20, bowl |-> 15,
      chair |-> 100, couch |-> 90, potted_plant |-> 50, tv |-> 70, laptop |-> 30,
      mouse |-> 5, remote |-> 15, keyboard |-> 5, cell_phone |-> 15, book |-> 25,
      vase |-> 30, hand |-> 20 ]

DefaultHeight == 50

GetRealWorldHeight(cls) ==
    IF cls \in DOMAIN HeightTable THEN HeightTable[cls] ELSE DefaultHeight

\* The zoom level, in tenths, is kept between 0.5 and 4 by both of its
\* writers, and the camera's vertical field of view is 75 / level degrees.
MinZoom == 5
MaxZoom == 40
ZoomLevels == MinZoom..MaxZoom

\* 1000 * tan(fov / 2) for fov = 75 / level degrees, level = 0.5, 0.6 .. 4.0,
\* rounded to the nearest thousandth.
TanTable ==
    << 3732, 1921, 1355, 1068, 890, 767, 677, 607, 551, 505, 466, 434,
       405, 381, 359, 339, 322, 307, 293, 280, 268, 257, 247, 238,
       230, 222, 214, 207, 201, 195, 189, 184, 179, 174, 169, 165 >>

TanHalfFov(zoom) == TanTable[zoom - MinZoom + 1]

\* The video is drawn to cover the screen: the scale of a video pixel on the
\* vertical axis, in ten-thousandths.
ScaleY(videoW, videoH, screenW, screenH) ==
    IF screenW * videoH > screenH * videoW
    THEN (screenW * 10000) \div videoW
    ELSE (screenH * 10000) \div videoH

\* projectedHeight / screenH, in ten-thousandths.
ScreenHeightFraction(h, videoW, videoH, screenW, screenH) ==
    (h * ScaleY(videoW, videoH, screenW, screenH)) \div screenH

\* What an IEEE division of a positive number by +0 yields.
Infinity == 2000000000

\* z before the clamp: (realHeight / fraction) / (2 * tan(fov / 2)).
RawDistanceProduct(realHeight, fraction, tanHalf) ==
    (realHeight * fraction) \div (2 * tanHalf * 10)

RawDistance(realHeight, fraction, tanHalf) ==
    IF fraction = 0 THEN Infinity
    ELSE (realHeight * 5000000) \div (fraction * tanHalf)

MinDistance == 150
MaxDistance == 5000

\* Math.max(1.5, Math.min(50.0, z))
ClampDistanceNoCeiling(z) ==
    IF z < MinDistance THEN MinDistance ELSE z

ClampDistance(z) ==
    LET capped == IF z < MaxDistance THEN z ELSE MaxDistance
    IN  IF capped < MinDistance THEN MinDistance ELSE capped

\* calculate3DPosition reduced to the distance |z| it returns.
Distance(in) ==
    ClampDistance(
        RawDistance(GetRealWorldHeight(in.class),
                    ScreenHeightFraction(in.h, in.videoW, in.videoH,
                                         in.screenW, in.screenH),
                    TanHalfFov(in.zoom)))

\* One call of calculate3DPosition on the current arguments; the results of
\* the calls so far are kept in order.
Calculate3DPosition ==
    /\ geoIn # NoInput
    /\ Len(geoOut) < 2
    /\ IF geoOut = <<>> THEN TRUE ELSE geoOut[Len(geoOut)].h # geoIn.h
    /\ geoOut' = Append(geoOut, [h |-> geoIn.h, z |-> Distance(geoIn)])
    /\ UNCHANGED << now, trackersRef, labelsRef, nextIdRef, lastObjectSetRef,
                    lastAnalysisTimeRef, isMovingFastRef, processingIntervalRef,
                    sceneTimers, sceneDescription, nextLocalObjects, ev, assigned,
                    stream, captureVars, inFlight, net, live, sourceOffline, geoIn,
                    appVars, sceneHist, worker >>

\* The next detection of the same object is half as tall.
HalveBox ==
    /\ Len(geoOut) = 1
    /\ geoOut[1].h = geoIn.h
    /\ geoIn.h > 1
    /\ geoIn' = [geoIn EXCEPT !.h = @ \div 2]
    /\ UNCHANGED << now, trackersRef, labelsRef, nextIdRef, lastObjectSetRef,
                    lastAnalysisTimeRef, isMovingFastRef, processingIntervalRef,
                    sceneTimers, sceneDescription, nextLocalObjects, ev, assigned,
                    stream, captureVars, inFlight, net, live, sourceOffline, geoOut,
                    appVars, sceneHist, worker >>

\* ---------------------------------------------------------------- smoothing
\* const speed = isMovingFastRef.current ? 0.9 : 0.2, in tenths
PhysicsSpeed(moving) == IF moving THEN 9 ELSE 2

\* t.lockedBox[i] += (scaledBbox[i] - t.lockedBox[i]) * lerpFactor, for one
\* coordinate of a matched track.
LerpBoxStep ==
    /\ smooth # NoInput
    /\ smooth.kind = "lockedBox"
    /\ smooth' = [smooth EXCEPT !.current =
                     Lerp(@, smooth.target, LerpFactor(processingIntervalRef))]
    /\ ev' = Event("lerp", <<>>, 0, <<>>, {}, NoRegistry)
    /\ UNCHANGED << now, trackersRef, labelsRef, nextIdRef, lastObjectSetRef,
                    lastAnalysisTimeRef, isMovingFastRef, processingIntervalRef,
                    sceneTimers, sceneDescription, nextLocalObjects, assigned,
                    stream, captureVars, inFlight, net, live, sourceOffline,
                    geoIn, geoOut,
                    zoomState, cameraFov, analysisMode, sceneHist, worker >>

\* tracker.physics.current.x += (tracker.physics.target.x -
\* tracker.physics.current.x) * speed, for one coordinate of one track in a
\* tick.
PhysicsStep ==
    /\ smooth # NoInput
    /\ smooth.kind = "physics"
    /\ smooth' = [smooth EXCEPT !.current =
                     Lerp(@, smooth.target, PhysicsSpeed(isMovingFastRef))]
    /\ ev' = Event("physics", <<>>, 0, <<>>, {}, NoRegistry)
    /\ UNCHANGED << now, trackersRef, labelsRef, nextIdRef, lastObjectSetRef,
                    lastAnalysisTimeRef, isMovingFastRef, processingIntervalRef,
                    sceneTimers, sceneDescription, nextLocalObjects, assigned,
                    stream, captureVars, inFlight, net, live, sourceOffline,
                    geoIn, geoOut,
                    zoomState, cameraFov, analysisMode, sceneHist, worker >>

\* ------------------------------------------------------- detection worker
\* video.videoWidth in the worker specification: a frame that both desktop
\* analysis widths divide.
VideoWidth == 2240

\* const ANALYSIS_WIDTH = isMobile ? 240 : (320 * qualityMultiplier), with
\* qualityMultiplier 0.7 below a network quality of 0.5
AnalysisWidth(isMobile, quality) ==
    IF isMobile THEN 240 ELSE IF quality < 500 THEN 224 ELSE 320

\* sendFrame up to its await, with the local ANALYSIS_WIDTH it carries across.
SendFrameStart ==
    /\ SendFrameBegin
    /\ worker' = [worker EXCEPT !.analysisWidth = AnalysisWidth(FALSE, networkQualityRef)]

\* sendFrame from the await to its end, with the bitmap it created: posted
\* to the worker together with scaleFactor, or closed.
SendFrameDetect(dt, bitmapOk, isMoving) ==
    /\ SendFrameResume(dt, bitmapOk, isMoving)
    /\ bitmapOk => Len(worker.bitmaps) < MaxBitmaps
    /\ worker' =
         IF ~bitmapOk THEN worker
         ELSE LET id == Len(worker.bitmaps) + 1
                  posted == PostsRequest(isMovingFastRef)
              IN  [worker EXCEPT
                     !.bitmaps = Append(@, [transferred |-> posted,
                                            senderCloses |-> IF posted THEN 0 ELSE 1,
                                            workerCloses |-> 0,
                                            results |-> 0,
                                            end |-> "none"]),
                     !.jobs = IF posted
                              THEN (id :> [scaleFactor |->
                                              VideoWidth \div worker.analysisWidth,
                                           pc |-> "posted"]) @@ @
                              ELSE @]

\* What the handlers of the worker thread leave alone.
WorkerFrame ==
    UNCHANGED << now, trackersRef, labelsRef, nextIdRef, lastObjectSetRef,
                 lastAnalysisTimeRef, isMovingFastRef, processingIntervalRef,
                 sceneTimers, sceneDescription, nextLocalObjects, ev, assigned,
                 stream, captureVars, sideVars, sceneHist >>

\* self.onmessage, type 'load', when both models have loaded.
WorkerLoad ==
    /\ ~worker.loaded
    /\ worker' = [worker EXCEPT !.loaded = TRUE]
    /\ UNCHANGED inFlight
    /\ WorkerFrame

\* if (imageBitmap) imageBitmap.close() on the early return
EarlyClosesNone(n) == n
EarlyCloses(n) == n + 1

\* self.onmessage, type 'detect', up to its return or its first await:
\* without the models the bitmap is closed and the request ends.
WorkerDetect(id) ==
    /\ id \in DOMAIN worker.jobs
    /\ worker.jobs[id].pc = "posted"
    /\ IF ~worker.loaded
       THEN /\ worker' = [worker EXCEPT
                            !.bitmaps[id].workerCloses = EarlyCloses(@),
                            !.bitmaps[id].end = "notLoaded",
                            !.jobs = [j \in DOMAIN @ \ {id} |-> @[j]]]
            /\ inFlight' = inFlight - 1
       ELSE /\ worker' = [worker EXCEPT !.jobs[id].pc = "inferring"]
            /\ UNCHANGED inFlight
    /\ WorkerFrame

\* postMessage({ type: 'result', predictions: result, id, scaleFactor })
EchoWithoutScale(sf) == 1
Echo(sf) == sf

\* The detect handler after the inference: the bitmap is closed, and the
\* result, unless the inference threw, is posted with the scaleFactor of
\* the request.
WorkerInferred(id, threw, preds) ==
    /\ id \in DOMAIN worker.jobs
    /\ worker.jobs[id].pc = "inferring"
    /\ IF threw
       THEN /\ worker' = [worker EXCEPT
                            !.bitmaps[id].workerCloses = @ + 1,
                            !.bitmaps[id].end = "threw",
                            !.jobs = [j \in DOMAIN @ \ {id} |-> @[j]]]
            /\ inFlight' = inFlight - 1
       ELSE /\ worker' = [worker EXCEPT
                            !.bitmaps[id].workerCloses = @ + 1,
                            !.bitmaps[id].results = @ + 1,
                            !.bitmaps[id].end = "answered",
                            !.jobs[id].pc = "answered",
                            !.replies = @ \cup
                                {[id |-> id,
                                  scaleFactor |-> Echo(worker.jobs[id].scaleFactor),
                                  predictions |-> preds]}]
            /\ UNCHANGED inFlight
    /\ WorkerFrame

\* worker.onmessage, type 'result', for a message of the worker.
ResultMessage(msg) ==
    /\ msg \in worker.replies
    /\ HandleWorkerPredictions(0, msg.predictions, msg.scaleFactor)
    /\ worker' = [worker EXCEPT !.replies = @ \ {msg},
                                !.jobs = [j \in DOMAIN @ \ {msg.id} |-> @[j]]]
    /\ inFlight' = inFlight - 1
    /\ UNCHANGED sceneHist

\* ------------------------------------------------------------------- zoom
\* useState<ZoomState>({ level: 1, .. }), in tenths
DefaultZoom == 10

\* new THREE.PerspectiveCamera(75, ..), and the `|| 75` of the estimator
DefaultFov == 75000

\* Math.max(0.5, Math.min(4, level))
ClampZoom(level) ==
    IF level > MaxZoom THEN MaxZoom ELSE IF level < MinZoom THEN MinZoom ELSE level

\* cameraRef.current.fov = 75 / zoomState.level
FovFor(level) == 750000 \div level

\* What the zoom handlers leave alone.
ZoomFrame ==
    UNCHANGED << now, trackersRef, labelsRef, nextIdRef, lastObjectSetRef,
                 lastAnalysisTimeRef, isMovingFastRef, processingIntervalRef,
                 sceneTimers, sceneDescription, nextLocalObjects, assigned, stream,
                 captureVars, inFlight, net, live, sourceOffline, geoIn, geoOut, smooth,
                 analysisMode,
                 sceneHist, worker >>

\* setZoomState with a new state object: VisionSystem renders again and its
\* zoom effect is to run.
SetZoomState(level) ==
    /\ zoomState' = [level |-> level, effect |-> TRUE]
    /\ UNCHANGED cameraFov
    /\ ZoomFrame

\* handleManualZoom(delta): the arrow keys step by 0.1, the buttons by 0.2.
HandleManualZoom(delta) ==
    /\ SetZoomState(ClampZoom(zoomState.level + delta))
    /\ ev' = Event("manualZoom", <<>>, 0, <<>>, {}, NoRegistry)

\* The setZoomInterest tool call, with the level the model asks for.
SetZoomInterest(level) ==
    /\ SetZoomState(ClampZoom(level))
    /\ ev' = Event("setZoomInterest", <<>>, 0, <<>>, {}, NoRegistry)

\* The RESET_ZOOM command and the reset button.
ResetZoom ==
    /\ SetZoomState(DefaultZoom)
    /\ ev' = Event("resetZoom", <<>>, 0, <<>>, {}, NoRegistry)

\* The auto-reset timer, armed while the level is not 1.
ZoomAutoReset ==
    /\ zoomState.level # DefaultZoom
    /\ SetZoomState(DefaultZoom)
    /\ ev' = Event("autoResetZoom", <<>>, 0, <<>>, {}, NoRegistry)

\* The zoom effect of VisionSystem: it sets the field of view of the camera
\* if there is one.
ZoomEffect ==
    /\ zoomState.effect
    /\ zoomState' = [zoomState EXCEPT !.effect = FALSE]
    /\ cameraFov' = IF sceneRef THEN FovFor(zoomState.level) ELSE cameraFov
    /\ ev' = Event("zoomEffect", <<>>, 0, <<>>, {}, NoRegistry)
    /\ ZoomFrame

\* ------------------------------------------------------- specifications
\* The worker before its models are loaded, with no request made.
NoWorker == [loaded |-> FALSE, analysisWidth |-> 0, bitmaps |-> <<>>, jobs |-> <<>>,
             replies |-> {}]

\* The scene history before any pass.
NoSceneHist == [reports |-> <<>>, changed |-> FALSE, changeTime |-> 0,
                changeEmitted |-> FALSE]

\* new NetworkService(): the fields as declared, and no socket yet.  ws is
\* the index in sockets of this.ws, 0 for null; sockets holds the readyState
\* of the WebSocket objects of the service, in order of creation; timers
\* counts the armed reconnect timers.  History: did is what the last handler
\* did, quiet says that disconnect() was called and neither connect() nor
\* setUrl() since, failures counts the connections that closed before they
\* opened since the last open or setUrl(), lastDelay is the delay of the last
\* timer armed since then, urlPending says that no socket was constructed
\* since the last setUrl().
NewNetworkService ==
    [ws |-> 0, sockets |-> << >>, reconnectTimeout |-> "null", timers |-> 0,
     isExplicitlyClosed |-> FALSE, retryCount |-> 0, serverUrl |-> "localhost",
     did |-> {}, quiet |-> FALSE, failures |-> 0, lastDelay |-> 0,
     urlPending |-> FALSE]

\* Live sessions the model lets be connecting, open or failing at a time.
MaxSessions == 2

\* App before the boot sequence completes: sessionPromiseRef null (0),
\* connectedRef false, reconnectTimeoutRef null, no session.  sessions holds
\* the state of the session of each slot, latest is the slot of the session
\* created last, timers counts the armed reconnect timers, online is
\* navigator.onLine, audioInput says that startAudioInput has installed
\* onaudioprocess.  History: did is what the last handler did, lostSince
\* says that an onclose or onerror ran and no onopen since, tick changes with
\* every call of connectToGemini.
NoLiveSession ==
    [sessions |-> [s \in 1..MaxSessions |-> [state |-> "closed", queued |-> FALSE]],
     latest |-> 0, sessionPromiseRef |-> 0, connectedRef |-> FALSE,
     reconnectTimeoutRef |-> "null", timers |-> 0, online |-> TRUE,
     booted |-> FALSE, audioInput |-> FALSE, did |-> {}, lostSince |-> FALSE,
     tick |-> FALSE]

\* The refs as useRef() made them.
MountedRefs ==
    /\ now = Epoch
    /\ trackersRef = NoRegistry
    /\ labelsRef = {}
    /\ nextIdRef = FirstId
    /\ lastObjectSetRef = <<>>
    /\ lastAnalysisTimeRef = 0
    /\ isMovingFastRef = FALSE
    /\ sceneTimers = <<>>
    /\ sceneDescription = [kind |-> "waiting", classes |-> <<>>]
    /\ nextLocalObjects = {}
    /\ ev = Event("init", <<>>, 0, <<>>, {}, NoRegistry)
    /\ assigned = {}
    /\ stream = "idle"
    /\ lastCaptureTimeRef = 0
    /\ inFlight = 0
    /\ motionTimers = 0
    /\ sourceOffline = FALSE
    /\ sceneHist = NoSceneHist
    /\ worker = NoWorker
    /\ zoomState = [level |-> DefaultZoom, effect |-> FALSE]
    /\ cameraFov = DefaultFov
    /\ analysisMode = DefaultAnalysisMode
    /\ net = NewNetworkService
    /\ live = NoLiveSession
    /\ geoOut = NoInput

\* After mount and camera start: updateNetworkStats has run once, here on a
\* desktop browser with a fast link, and startLoops has started both loops.
Init ==
    /\ MountedRefs
    /\ processingIntervalRef = IntervalFor(FALSE, FastLink)
    /\ networkQualityRef = QualityFor(FastLink, UnsetQuality)
    /\ sendFramePc = "idle"
    /\ sceneRef = TRUE
    /\ renderLoops = 1
    /\ geoIn = NoInput
    /\ smooth = NoInput

\* After mount, before the camera has started: updateNetworkStats has run
\* once on a desktop browser, with any link or without navigator.connection.
InitMount ==
    /\ MountedRefs
    /\ \E down \in Downlinks :
          /\ processingIntervalRef = IntervalFor(FALSE, down)
          /\ networkQualityRef = QualityFor(down, UnsetQuality)
    /\ sendFramePc = "off"
    /\ sceneRef = FALSE
    /\ renderLoops = 0
    /\ geoIn = NoInput
    /\ smooth = NoInput

\* Lifecycle: passes and ticks while the clock advances.
Next ==
    \/ \E dt \in Delays, preds \in LifeBatches, sf \in ScaleFactors :
          /\ now + dt <= MaxTime
          /\ HandleWorkerPredictions(dt, preds, sf)
          /\ UNCHANGED << sceneHist, inFlight, worker >>
    \/ \E dt \in Delays :
          /\ now + dt <= MaxTime
          /\ UpdateVisualsAndPhysics(dt)

Spec == Init /\ [][Next]_vars

\* Association: every kind of batch against every registry, within one
\* clock reading, under both smoothing factors and with the rapid-motion
\* flag set and cleared.
SlowLinks == {1}

NextAssoc ==
    \/ \E preds \in AssocBatches, sf \in ScaleFactors :
          HandleWorkerPredictions(0, preds, sf) /\ UNCHANGED << sceneHist, inFlight, worker >>
    \/ UpdateVisualsAndPhysics(0)
    \/ MotionDetected
    \/ MotionTimeout
    \/ \E m \in BOOLEAN, d \in SlowLinks : UpdateNetworkStats(m, d)

SpecAssoc == Init /\ [][NextAssoc]_vars

\* Offline: the lifecycle until the worker stops answering, then ticks only.
\* The clock runs on past the last possible pass by twice the lost
\* threshold, far enough for every track to become Lost.
OfflineLimit == MaxTime + 2 * LostThreshold

OfflineBatches == { <<PersonP>>, <<PersonP, HandP>> }

TickWhileTimePasses ==
    \E dt \in Delays \ {0} : now + dt <= OfflineLimit /\ UpdateVisualsAndPhysics(dt)

NextOffline ==
    \/ \E dt \in Delays, preds \in OfflineBatches, sf \in ScaleFactors :
          /\ ~sourceOffline
          /\ now + dt <= MaxTime
          /\ HandleWorkerPredictions(dt, preds, sf)
          /\ UNCHANGED << sceneHist, inFlight, worker >>
    \/ TickWhileTimePasses
    \/ UpdateVisualsAndPhysics(0)
    \/ SourceGoesOffline

\* requestAnimationFrame keeps calling renderLoop, and the clock keeps
\* running.
SpecOffline ==
    /\ Init
    /\ [][NextOffline]_vars
    /\ WF_vars(TickWhileTimePasses)
    /\ WF_vars(UpdateVisualsAndPhysics(0))

\* Capture: the camera start, the capture loop with the worker channel, the
\* cooldown timers, network changes, and the two registry writers.
CaptureDelays == {0, CaptureInterval + 1}
CaptureLimit == Epoch + 2 * (CaptureInterval + 1)
CaptureBatches == { <<PersonP>> }

NextCapture ==
    \/ SwitchCamera
    \/ SendFrameBegin /\ UNCHANGED worker
    \/ \E dt \in CaptureDelays, bitmapOk \in BOOLEAN, isMoving \in BOOLEAN :
          /\ now + dt <= CaptureLimit
          /\ SendFrameResume(dt, bitmapOk, isMoving)
          /\ UNCHANGED worker
    \/ \E preds \in CaptureBatches, sf \in ScaleFactors : WorkerResult(preds, sf)
    \/ WorkerNoResult
    \/ MotionTimeout
    \/ UpdateVisualsAndPhysics(0)
    \/ \E down \in Downlinks \ {NoConnection} :
          networkQualityRef # UnsetQuality /\ UpdateNetworkStats(FALSE, down)

\* The 500 ms timer fires, and the capture loop reschedules itself.
SpecCapture ==
    /\ InitMount
    /\ [][NextCapture]_vars
    /\ WF_vars(MotionTimeout)

\* Scene: passes over batches of three signatures while the clock runs
\* through the debounce window and half a second beyond, and the deferred
\* report callbacks.
SceneDelays == {0, LostThreshold, SceneDebounce}
SceneLimit == Epoch + SceneDebounce + LostThreshold
SceneBatches == { <<>>, <<PersonP>>, <<HandP>> }

NextScene ==
    \/ \E dt \in SceneDelays, preds \in SceneBatches, sf \in ScaleFactors :
          now + dt <= SceneLimit /\ ScenePass(dt, preds, sf)
    \/ SceneTimerFire

SpecScene == Init /\ [][NextScene]_vars

\* Intake: well-formed and malformed detections against every registry,
\* within one clock reading.
NextIntake ==
    \/ \E preds \in IntakeBatches, sf \in ScaleFactors :
          HandleWorkerPredictions(0, preds, sf) /\ UNCHANGED << sceneHist, inFlight, worker >>
    \/ UpdateVisualsAndPhysics(0)

SpecIntake == Init /\ [][NextIntake]_vars

\* Geometry: calculate3DPosition on boxes of every height the worker can
\* post (none, negative, a pixel, a fraction of the frame, the frame, more
\* than the frame), for classes with and without a table entry, landscape
\* and portrait video, screens narrower and wider than the video, and every
\* zoom level.
BoxHeights == {-40, 0, 1, 80, 540, 640, 720, 1440}
GeometryClasses == {"person", "hand", "mouse", "wine glass"}
VideoSizes == { <<1280, 720>>, <<480, 640>> }
\* window.innerWidth and window.innerHeight of a window that is drawn: at
\* least a pixel each way.
ScreenSizes == { <<1280, 720>>, <<390, 844>>, <<2560, 1080>> }

GeometryInputs ==
    { [h |-> h, class |-> c, videoW |-> v[1], videoH |-> v[2],
       screenW |-> s[1], screenH |-> s[2], zoom |-> z] :
         h \in BoxHeights, c \in GeometryClasses, v \in VideoSizes,
         s \in ScreenSizes, z \in ZoomLevels }

InitGeometry ==
    /\ MountedRefs
    /\ processingIntervalRef = IntervalFor(FALSE, FastLink)
    /\ networkQualityRef = QualityFor(FastLink, UnsetQuality)
    /\ sendFramePc = "idle"
    /\ sceneRef = TRUE
    /\ renderLoops = 1
    /\ geoIn \in GeometryInputs
    /\ smooth = NoInput

NextGeometry ==
    \/ Calculate3DPosition
    \/ HalveBox

SpecGeometry == InitGeometry /\ [][NextGeometry]_vars

\* Smoothing: one coordinate of a box or of a physics position, starting at
\* the creation depth (-10 m in centimetres), at zero or at a pixel column,
\* with targets from one rounding unit to twenty units away on either side,
\* stepped until it rests, under both lerp factors and both speeds.
SmoothStarts == {-1000, 0, 200}
SmoothGaps == {-20, -6, -5, -3, -2, -1, 0, 1, 2, 3, 5, 6, 20}

SmoothInputs ==
    { [kind |-> k, current |-> c, target |-> c + g] :
         k \in {"lockedBox", "physics"}, c \in SmoothStarts, g \in SmoothGaps }

InitSmooth ==
    /\ MountedRefs
    /\ processingIntervalRef = IntervalFor(FALSE, FastLink)
    /\ networkQualityRef = QualityFor(FastLink, UnsetQuality)
    /\ sendFramePc = "idle"
    /\ sceneRef = TRUE
    /\ renderLoops = 1
    /\ geoIn = NoInput
    /\ smooth \in SmoothInputs

NextSmooth ==
    \/ LerpBoxStep
    \/ PhysicsStep
    \/ MotionDetected
    \/ MotionTimeout
    \/ \E m \in BOOLEAN, d \in SlowLinks \cup {FastLink} : UpdateNetworkStats(m, d)

SpecSmooth == InitSmooth /\ [][NextSmooth]_vars

\* Worker: the capture loop posting bitmaps, the worker before and after its
\* models load, inferences that answer and inferences that throw, network
\* changes between a request and its result, and rapid motion, within one
\* clock reading.
WorkerBatches == { <<PersonP, HandP>> }

NextWorker ==
    \/ SendFrameStart
    \/ \E bitmapOk \in BOOLEAN : SendFrameDetect(0, bitmapOk, FALSE)
    \/ WorkerLoad
    \/ \E id \in 1..MaxBitmaps : WorkerDetect(id)
    \/ \E id \in 1..MaxBitmaps, threw \in BOOLEAN, preds \in WorkerBatches :
          WorkerInferred(id, threw, preds)
    \/ \E msg \in worker.replies : ResultMessage(msg)
    \/ MotionDetected
    \/ MotionTimeout
    \/ \E down \in SlowLinks \cup {FastLink} : UpdateNetworkStats(FALSE, down)

SpecWorker == Init /\ [][NextWorker]_vars

\* Zoom: key and button steps, tool calls asking for levels inside and
\* outside the range, resets, the auto-reset, the zoom effect, and the camera
\* start that creates the camera.
ZoomSteps == {-2, -1, 1, 2}
ZoomRequests == {-10, 0, 3, 5, 25, 40, 41, 100}

NextZoom ==
    \/ \E delta \in ZoomSteps : HandleManualZoom(delta)
    \/ \E level \in ZoomRequests : SetZoomInterest(level)
    \/ ResetZoom
    \/ ZoomAutoReset
    \/ ZoomEffect
    \/ SwitchCamera

SpecZoom == InitMount /\ [][NextZoom]_vars

\* ---------------------------------------------------------------- claims
CreatedAt(lg) == { i \in 1..Len(lg) : lg[i].outcome = "created" }
MatchedAt(lg) == { i \in 1..Len(lg) : lg[i].outcome = "matched" }
WasLost(tr, t) == t - tr.lastSeenTime > 500

\* C1: ids come from a counter that only increases.  Every id a pass hands
\* out is greater than every id handed out before it (in earlier passes and
\* earlier in the same pass), every created track sits in the registry
\* under its own id, and an id that has left the registry never comes back.
C1_Step ==
    /\ \A i \in CreatedAt(ev'.log) :
          LET cid == ev'.log[i].id
          IN  /\ \A old \in assigned : cid > old
              /\ \A j \in CreatedAt(ev'.log) : j < i => ev'.log[j].id < cid
              /\ cid \in DOMAIN trackersRef'
              /\ cid \notin DOMAIN trackersRef
    /\ \A id \in DOMAIN trackersRef' : trackersRef'[id].id = id
    /\ \A id \in DOMAIN trackersRef' \ DOMAIN trackersRef : id \notin assigned
    /\ assigned \subseteq assigned'
    /\ DOMAIN trackersRef' \subseteq assigned'

C1_IdsNeverReused == [][C1_Step]_vars

\* An evicted id exists and a later pass created a track with a larger id.
C1_Witness ==
    /\ ev.kind = "pass"
    /\ \E i \in CreatedAt(ev.log) :
          \E old \in assigned : old \notin DOMAIN trackersRef /\ old < ev.log[i].id

\* C2: a track matched in a pass keeps its id and class and leaves the pass
\* with opacity 1.0, consecutiveMisses 0 and lastSeenTime = the time of the
\* pass, hence Active, whatever its state before the pass.
C2_MatchRevives ==
    ev.kind = "pass" =>
        \A i \in MatchedAt(ev.log) :
            LET id == ev.log[i].id
            IN  /\ id \in DOMAIN ev.before
                /\ id \in DOMAIN trackersRef
                /\ trackersRef[id].id = ev.before[id].id
                /\ trackersRef[id].class = ev.before[id].class
                /\ trackersRef[id].opacity = 1000000
                /\ trackersRef[id].consecutiveMisses = 0
                /\ trackersRef[id].lastSeenTime = now
                /\ ~WasLost(trackersRef[id], now)

\* A Lost track whose opacity had decayed to its lowest value was matched.
C2_Witness ==
    /\ ev.kind = "pass"
    /\ \E i \in MatchedAt(ev.log) :
          /\ WasLost(ev.before[ev.log[i].id], now)
          /\ ev.before[ev.log[i].id].opacity < 100000

\* C3: in a tick a track is Lost iff now - lastSeenTime > 500.  A track that
\* is not Lost stays in the registry with its opacity; a Lost track has its
\* opacity lowered by 0.05 (to the last digit held) and is removed - from the
\* registry and from the tick's output list - exactly when the lowered
\* opacity is below 0.05.
C3_Step ==
    ev'.kind = "tick" =>
        \A id \in DOMAIN trackersRef :
            LET tr == trackersRef[id]
                lost == now' - tr.lastSeenTime > 500
                stays == id \in DOMAIN trackersRef'
            IN  /\ (~lost) => (stays /\ trackersRef'[id].opacity = tr.opacity)
                /\ (lost /\ stays) =>
                      (/\ tr.opacity - trackersRef'[id].opacity \in {50000, 50001}
                       /\ trackersRef'[id].opacity >= 50000)
                /\ (lost /\ ~stays) => (tr.opacity - 50000 < 50000)
                /\ (stays <=> id \in nextLocalObjects')
                /\ (stays <=> id \notin ev'.removed)

C3_LostDecayEvict == [][C3_Step]_vars

\* A tick removed a Lost track from the registry and from its output list.
C3_Witness ==
    /\ ev.kind = "tick"
    /\ ev.removed # {}
    /\ ev.removed \cap nextLocalObjects = {}
    /\ ev.removed \cap DOMAIN trackersRef = {}

\* The pass' view of detection i: its scaled corner, the squared distance
\* to a track as the pass found it, the tracks claimed before i, and the
\* candidates left for i.
Corner(i) == << ev.preds[i].bbox[1] * ev.scaleFactor,
                ev.preds[i].bbox[2] * ev.scaleFactor >>

Gap2(i, id) ==
    LET c == Corner(i)
        b == ev.before[id].lockedBox
    IN  (c[1] - b[1]) * (c[1] - b[1]) + (c[2] - b[2]) * (c[2] - b[2])

ClaimedBefore(i) == { ev.log[j].id : j \in { k \in MatchedAt(ev.log) : k < i } }

Candidates(i) ==
    { id \in DOMAIN ev.before :
        ev.before[id].class = ev.preds[i].class /\ id \notin ClaimedBefore(i) }

InGate(i) == { id \in Candidates(i) : Gap2(i, id) < 200 * 200 }

MatchedIds == { ev.log[i].id : i \in MatchedAt(ev.log) }
CreatedIds == { ev.log[i].id : i \in CreatedAt(ev.log) }

\* C4: an accepted detection is matched to the nearest not-yet-claimed track
\* of its class, the first in registry order among the equally near, and only
\* when that track is nearer than 200; otherwise it creates a track, and no
\* track that the pass did not match is changed.
C4_NearestWithinGate ==
    ev.kind = "pass" =>
        /\ \A i \in 1..Len(ev.preds) :
              ev.log[i].outcome # "dropped" =>
                  IF InGate(i) = {}
                  THEN ev.log[i].outcome = "created"
                  ELSE /\ ev.log[i].outcome = "matched"
                       /\ ev.log[i].id \in InGate(i)
                       /\ \A id \in InGate(i) :
                             \/ Gap2(i, ev.log[i].id) < Gap2(i, id)
                             \/ (Gap2(i, ev.log[i].id) = Gap2(i, id) /\ ev.log[i].id <= id)
        /\ \A id \in DOMAIN ev.before \ MatchedIds : trackersRef[id] = ev.before[id]

\* The detection matched the nearest track although an earlier track in
\* registry order was inside the gate too.
C4_Witness ==
    /\ ev.kind = "pass"
    /\ \E i \in MatchedAt(ev.log) :
          \E id \in InGate(i) : id < ev.log[i].id /\ Gap2(i, id) > Gap2(i, ev.log[i].id)

\* C5: a track's class never changes; a detection only ever matches a track
\* of its own class; tracks of a class that no accepted detection of the
\* batch has are left exactly as they were, and a detection with no track
\* of its class in reach creates a track.
C5_Step ==
    \A id \in DOMAIN trackersRef \cap DOMAIN trackersRef' :
        trackersRef'[id].class = trackersRef[id].class

C5_Pass ==
    ev.kind = "pass" =>
        /\ \A i \in MatchedAt(ev.log) :
              ev.before[ev.log[i].id].class = ev.preds[i].class
        /\ \A i \in 1..Len(ev.preds) :
              (/\ ev.log[i].outcome # "dropped"
               /\ \A id \in DOMAIN ev.before : ev.before[id].class # ev.preds[i].class)
              => ev.log[i].outcome = "created"
        /\ \A id \in DOMAIN ev.before :
              (\A i \in 1..Len(ev.preds) :
                    ev.log[i].outcome = "dropped" \/ ev.preds[i].class # ev.before[id].class)
              => trackersRef[id] = ev.before[id]

C5_ClassFixed == [](C5_Pass) /\ [][C5_Step]_vars

\* A detection landed exactly on the box of a track of another class and
\* created a track.
C5_Witness ==
    /\ ev.kind = "pass"
    /\ \E i \in CreatedAt(ev.log) :
          \E id \in DOMAIN ev.before :
              /\ ev.before[id].class # ev.preds[i].class
              /\ Gap2(i, id) = 0
              /\ trackersRef[id] = ev.before[id]

\* C6: in one pass no track is matched twice, and every accepted detection
\* has exactly one effect: it updates one track that was there, or it adds
\* one track under a fresh id.
C6_OneToOne ==
    ev.kind = "pass" =>
        /\ Len(ev.log) = Len(ev.preds)
        /\ \A i \in 1..Len(ev.preds) :
              ev.preds[i].score >= 20 => ev.log[i].outcome \in {"matched", "created"}
        /\ \A i, j \in MatchedAt(ev.log) : i # j => ev.log[i].id # ev.log[j].id
        /\ \A i, j \in CreatedAt(ev.log) : i # j => ev.log[i].id # ev.log[j].id
        /\ MatchedIds \subseteq DOMAIN ev.before
        /\ CreatedIds \cap DOMAIN ev.before = {}
        /\ DOMAIN trackersRef = DOMAIN ev.before \cup CreatedIds
        /\ Cardinality(DOMAIN trackersRef) =
              Cardinality(DOMAIN ev.before) + Cardinality(CreatedAt(ev.log))
        /\ \A id \in DOMAIN ev.before :
              trackersRef[id] # ev.before[id] => id \in MatchedIds

\* Two detections of one batch competed for one track: the first matched
\* it, the second created a track.
C6_Witness ==
    /\ ev.kind = "pass"
    /\ Len(ev.preds) = 2
    /\ ev.preds[1] = ev.preds[2]
    /\ ev.log[1].outcome = "matched"
    /\ ev.log[2].outcome = "created"

C8_Range == \A id \in DOMAIN trackersRef :
    trackersRef[id].opacity >= 0 /\ trackersRef[id].opacity <= 1000000

C8_Step ==
    \A id \in DOMAIN trackersRef' :
        IF id \notin DOMAIN trackersRef
        THEN trackersRef'[id].opacity = 1000000
        ELSE IF ev'.kind = "pass" /\ id \in { ev'.log[i].id : i \in MatchedAt(ev'.log) }
        THEN trackersRef'[id].opacity = 1000000
        ELSE /\ trackersRef'[id].opacity <= trackersRef[id].opacity
             /\ trackersRef'[id].opacity < trackersRef[id].opacity => ev'.kind = "tick"

C8_OpacityBounds == [](C8_Range) /\ [][C8_Step]_vars

\* A track has decayed to the lowest opacity a registry entry can have.
C8_Witness ==
    \E id \in DOMAIN trackersRef :
        trackersRef[id].opacity > 0 /\ trackersRef[id].opacity < 100000

\* C9: the labels are exactly the labels of the registry's tracks; a track
\* leaves the registry only in a tick, its label with it, and never returns.
C9_Owned == labelsRef = DOMAIN trackersRef

C9_Step ==
    LET gone == DOMAIN trackersRef \ DOMAIN trackersRef'
    IN  /\ gone # {} => ev'.kind = "tick"
        /\ gone \cap labelsRef' = {}
        /\ \A id \in assigned \ DOMAIN trackersRef : id \notin DOMAIN trackersRef'

C9_RemovedWithLabel == [](C9_Owned) /\ [][C9_Step]_vars

\* A tick removed a track and its label while another track stayed.
C9_Witness ==
    /\ ev.kind = "tick"
    /\ ev.removed # {}
    /\ labelsRef # {}
    /\ ev.removed \cap labelsRef = {}

\* C10: a detection is dropped iff its score is below 0.2; the pass leaves
\* the registry, the labels and the id counter exactly as the same batch
\* without the sub-floor detections would, and a signature it records
\* counts the classes of the other detections only.
CountOf(seq, c) == Cardinality({ i \in 1..Len(seq) : seq[i] = c })

C10_Pass ==
    ev.kind = "pass" =>
        \A i \in 1..Len(ev.preds) :
            /\ (ev.preds[i].score < 20) <=> (ev.log[i].outcome = "dropped")
            /\ ev.log[i].outcome = "dropped" => ev.log[i].id = NoId

C10_Step ==
    ev'.kind = "pass" =>
        LET kept == SelectSeq(ev'.preds, LAMBDA q : q.score >= 20)
            st0 == [trackers |-> trackersRef, labels |-> labelsRef,
                    nextId |-> nextIdRef, available |-> DOMAIN trackersRef,
                    classes |-> <<>>, log |-> <<>>]
            st == ProcessAll(st0, kept, ev'.scaleFactor, now',
                             LerpFactor(processingIntervalRef))
        IN  /\ trackersRef' = st.trackers
            /\ labelsRef' = st.labels
            /\ nextIdRef' = st.nextId
            /\ now' - lastAnalysisTimeRef >= 2000 =>
                  \A c \in {"person", "hand"} :
                      CountOf(lastObjectSetRef', c) =
                          Cardinality({ i \in 1..Len(kept) : kept[i].class = c })

C10_FloorDiscards == [](C10_Pass) /\ [][C10_Step]_vars

\* A sub-floor hand detection came first in a batch: it was dropped, the
\* other detection was processed and the signature holds one person only.
C10_Witness ==
    /\ ev.kind = "pass"
    /\ Len(ev.preds) = 2
    /\ ev.preds[1].score < 20
    /\ ev.preds[1].class = "hand"
    /\ ev.log[1].outcome = "dropped"
    /\ ev.log[2].outcome = "created"
    /\ lastObjectSetRef = <<"person">>
    /\ lastAnalysisTimeRef = now

\* A detection is malformed when its box has no area or its class is empty
\* (pixel coordinates are integers here, so every coordinate is finite).
Malformed(pred) == pred.bbox[3] * pred.bbox[4] = 0 \/ pred.class = ""

\* C11: a malformed detection is dropped before association, whatever its
\* score: it neither creates a track nor is matched to one.
C11_MalformedDropped ==
    ev.kind = "pass" =>
        \A i \in 1..Len(ev.preds) :
            Malformed(ev.preds[i]) => ev.log[i].outcome = "dropped"

\* C12: once the worker has stopped answering, while ticks keep running and
\* the clock keeps advancing, the registry and the tick's output list
\* become empty and stay empty.
C12_Drained == DOMAIN trackersRef = {} /\ nextLocalObjects = {}

C12_OfflineDrains == [](sourceOffline => <>[]C12_Drained)

\* The worker went offline with tracks in the registry and a tick has
\* removed the last of them.
C12_Witness ==
    /\ sourceOffline
    /\ ev.kind = "tick"
    /\ ev.removed # {}
    /\ C12_Drained

\* C13: at most one detect request is in flight: the capture loop posts no
\* request while the answer to the previous one is outstanding.
C13_OneInFlight == inFlight <= 1

\* C14: the registry has one writer at a time.  At most one render loop
\* runs; a step that changes the registry, the labels or the id counter is
\* one whole tick or one whole pass; a tick does nothing a pass does (no
\* track added, none refreshed or moved) and a pass does nothing a tick does
\* (no track removed, none faded).
C14_Step ==
    /\ << trackersRef', labelsRef', nextIdRef' >> # << trackersRef, labelsRef, nextIdRef >>
          => ev'.kind \in {"pass", "tick"}
    /\ ev'.kind = "tick" =>
          /\ DOMAIN trackersRef' \subseteq DOMAIN trackersRef
          /\ nextIdRef' = nextIdRef
          /\ \A id \in DOMAIN trackersRef' :
                /\ trackersRef'[id].lastSeenTime = trackersRef[id].lastSeenTime
                /\ trackersRef'[id].lockedBox = trackersRef[id].lockedBox
    /\ ev'.kind = "pass" =>
          /\ DOMAIN trackersRef \subseteq DOMAIN trackersRef'
          /\ \A id \in DOMAIN trackersRef :
                trackersRef'[id].opacity >= trackersRef[id].opacity

C14_SingleWriter == [](renderLoops <= 1) /\ [][C14_Step]_vars

\* A tick ran on a registry with a track while sendFrame was suspended at
\* its await and a detect request was in flight.
C14_Witness ==
    /\ renderLoops = 1
    /\ sendFramePc = "await"
    /\ inFlight > 0
    /\ ev.kind = "tick"
    /\ DOMAIN trackersRef # {}

\* C17: while the rapid-motion flag is set, sendFrame posts no detect request
\* and a result that arrives is discarded, leaving the registry, the labels,
\* the id counter and the scene signature as they were; a set flag always
\* has a cooldown timer pending and is cleared again.
C17_Step ==
    /\ (isMovingFastRef /\ ev'.kind = "sendFrame")
          => (~ev'.posted /\ inFlight' = inFlight)
    /\ (isMovingFastRef /\ ev'.kind \in {"pass", "discarded"})
          => /\ ev'.kind = "discarded"
             /\ UNCHANGED << trackersRef, labelsRef, nextIdRef, lastObjectSetRef,
                             lastAnalysisTimeRef, sceneTimers >>
    /\ (~isMovingFastRef /\ ev'.kind \in {"pass", "discarded"}) => ev'.kind = "pass"

C17_MotionCooldown ==
    /\ [](isMovingFastRef => motionTimers > 0)
    /\ [][C17_Step]_vars
    /\ (isMovingFastRef ~> ~isMovingFastRef)

\* A result arrived for a registry with a track while the flag was set and
\* was discarded.
C17_Witness ==
    /\ isMovingFastRef
    /\ ev.kind = "discarded"
    /\ ev.preds # <<>>
    /\ DOMAIN trackersRef # {}

\* C18: a frame captured under rapid motion is compressed with a lower JPEG
\* quality than a frame captured without motion at the same network
\* quality.
C18_MotionLowersQuality ==
    (ev.kind = "sendFrame" /\ ev.captured /\ ev.moving)
        => ev.jpgQuality < JpgQuality(FALSE, networkQualityRef)

\* What a pass did to the scene detector, read off the step that took it.
StepDiffers == BatchSignature(ev'.preds) # lastObjectSetRef
StepEmitted == Len(sceneTimers') > Len(sceneTimers)

\* C15: a pass emits a scene-change event iff its signature differs from
\* the recorded one and at least 2000 ms have passed since the previous
\* emitted report (before the first report: only on a differing signature);
\* the event carries the class counts of the batch.
C15_Step ==
    ev'.kind = "pass" =>
        /\ IF sceneHist.reports # <<>>
           THEN StepEmitted <=>
                  (/\ StepDiffers
                   /\ now' - sceneHist.reports[Len(sceneHist.reports)].time >= 2000)
           ELSE StepEmitted => StepDiffers
        /\ StepEmitted =>
              \A c \in {"", "person", "hand"} :
                  CountOf(sceneTimers'[Len(sceneTimers')], c) =
                      Cardinality({ i \in 1..Len(ev'.preds) :
                                      ev'.preds[i].score >= 20 /\ ev'.preds[i].class = c })

C15_EmitsOnChangeAfterReport == [][C15_Step]_vars

\* C16 as stated: of two signature changes less than 2000 ms apart exactly
\* one is emitted.
C16_Original_Step ==
    (/\ ev'.kind = "pass"
     /\ StepDiffers
     /\ sceneHist.changed
     /\ now' - sceneHist.changeTime < 2000)
    => (StepEmitted <=> ~sceneHist.changeEmitted)

C16_ExactlyOneEvent == [][C16_Original_Step]_vars

\* C16 amended: of two signature changes less than 2000 ms apart at most
\* one is emitted, and any two reports are at least 2000 ms apart; a change
\* is emitted iff it comes at least 2000 ms after the latest signature
\* comparison, so both are suppressed when each falls inside that window.
C16_Step ==
    ev'.kind = "pass" =>
        /\ (/\ StepDiffers
            /\ sceneHist.changed
            /\ now' - sceneHist.changeTime < 2000)
           => ~(StepEmitted /\ sceneHist.changeEmitted)
        /\ StepDiffers => (StepEmitted <=> now' - lastAnalysisTimeRef >= 2000)
        /\ StepEmitted => StepDiffers

C16_Spacing ==
    \A i, j \in 1..Len(sceneHist.reports) :
        i < j => sceneHist.reports[j].time - sceneHist.reports[i].time >= 2000

C16_AtMostOneEvent == [](C16_Spacing) /\ [][C16_Step]_vars

\* A signature change was emitted and a second change, less than 2000 ms
\* later, was suppressed.
C16_Witness ==
    /\ ev.kind = "pass"
    /\ sceneHist.changed
    /\ sceneHist.changeTime = now
    /\ ~sceneHist.changeEmitted
    /\ sceneHist.reports # <<>>
    /\ now - sceneHist.reports[Len(sceneHist.reports)].time > 0
    /\ now - sceneHist.reports[Len(sceneHist.reports)].time < 2000

\* C19: the distance |z| that calculate3DPosition returns lies between 1.5 m
\* and 50 m for every box, class, video size, screen size and field of
\* view; a raw estimate outside the band is clamped to its nearer end.
C19_Raw(i) ==
    LET in == [geoIn EXCEPT !.h = geoOut[i].h]
    IN  RawDistance(GetRealWorldHeight(in.class),
                    ScreenHeightFraction(in.h, in.videoW, in.videoH,
                                         in.screenW, in.screenH),
                    TanHalfFov(in.zoom))

C19_DistanceInBand ==
    \A i \in 1..Len(geoOut) :
        /\ MinDistance <= geoOut[i].z
        /\ geoOut[i].z <= MaxDistance
        /\ C19_Raw(i) < MinDistance => geoOut[i].z = MinDistance
        /\ C19_Raw(i) > MaxDistance => geoOut[i].z = MaxDistance

\* A box of no height: the raw estimate is infinite, the result is 50 m.
C19_Witness ==
    /\ Len(geoOut) = 1
    /\ geoOut[1].h = 0
    /\ C19_Raw(1) = Infinity
    /\ geoOut[1].z = MaxDistance

\* The box of the first call covers the whole height of the screen.
FillsViewport(h, in) ==
    IF in.screenW * in.videoH > in.screenH * in.videoW
    THEN h * in.screenW = in.screenH * in.videoW
    ELSE h = in.videoH

\* A person's box filling the screen height, then the same box half as tall.
C20_Case ==
    /\ Len(geoOut) = 2
    /\ geoIn.class = "person"
    /\ FillsViewport(geoOut[1].h, geoIn)
    /\ geoOut[2].h * 2 = geoOut[1].h

\* C20 as stated: for a person and every field of view the camera can take,
\* the distance of a box filling the viewport height is strictly less than
\* the distance of the same box at half that height.
C20_StrictlyNearer ==
    C20_Case => geoOut[1].z < geoOut[2].z

\* C20 amended: the distance of the full-height box is never greater than
\* that of the half-height box; it is strictly less at zoom levels of 0.8
\* and above, and at zoom levels of 0.7 and below both are 1.5 m.
C20_NearerOrClamped ==
    C20_Case =>
        /\ geoOut[1].z <= geoOut[2].z
        /\ geoIn.zoom >= 8 => geoOut[1].z < geoOut[2].z
        /\ geoIn.zoom <= 7 => (geoOut[1].z = MinDistance /\ geoOut[2].z = MinDistance)

\* At zoom 2 the full-height person stands beyond the lower clamp, and the
\* half-height one twice as far.
C20_Witness ==
    /\ C20_Case
    /\ geoIn.zoom = 20
    /\ geoOut[1].z > MinDistance
    /\ geoOut[1].z < geoOut[2].z

\* C21: a track's opacity is a function of the time elapsed since its last
\* match alone: while that time is the same the opacity is the same, however
\* many ticks run.
C21_Step ==
    \A id \in DOMAIN trackersRef \cap DOMAIN trackersRef' :
        (now' - trackersRef'[id].lastSeenTime = now - trackersRef[id].lastSeenTime)
            => trackersRef'[id].opacity = trackersRef[id].opacity

C21_OpacityByElapsedTime == [][C21_Step]_vars

\* The factor a smoothing step is to use, in tenths: alpha is 0.5 when the
\* processing interval exceeds 300 ms and 0.4 otherwise; speed is 0.9 under
\* rapid motion and 0.2 otherwise.
C22_Fraction ==
    IF smooth.kind = "lockedBox"
    THEN (IF processingIntervalRef > 300 THEN 5 ELSE 4)
    ELSE (IF isMovingFastRef THEN 9 ELSE 2)

C22_IsStep == ev'.kind \in {"lerp", "physics"}

C22_Gap == smooth.target - smooth.current
C22_Move == smooth'.current - smooth.current

\* C22 as stated: a smoothing step moves the value toward its target by the
\* fraction alpha (box) or speed (physics) of the gap; the new value lies
\* between the old value and the target, and when they differ it neither
\* passes the target nor reaches it.
C22_Original_Step ==
    C22_IsStep =>
        /\ C22_Gap >= 0 => (0 <= C22_Move /\ C22_Move <= C22_Gap)
        /\ C22_Gap <= 0 => (C22_Gap <= C22_Move /\ C22_Move <= 0)
        /\ C22_Gap # 0 => smooth'.current # smooth.target

C22_NeverReachesInOneStep == [][C22_Original_Step]_vars

\* C22 amended: the step is the fraction of the gap, rounded to the unit of
\* the arithmetic; the new value lies between the old value and the target,
\* ends included, and never passes the target; when the gap is six units or
\* more it moves and stays short of the target.
C22_Step ==
    C22_IsStep =>
        /\ 10 * C22_Move - C22_Fraction * C22_Gap \in -5..5
        /\ C22_Gap >= 0 => (0 <= C22_Move /\ C22_Move <= C22_Gap)
        /\ C22_Gap <= 0 => (C22_Gap <= C22_Move /\ C22_Move <= 0)
        /\ (C22_Gap >= 6 \/ C22_Gap <= -6) =>
              /\ smooth'.current # smooth.current
              /\ smooth'.current # smooth.target
        /\ smooth'.target = smooth.target

C22_BoundedSteps == [][C22_Step]_vars

\* A physics coordinate under rapid motion, one step after a start twenty
\* units from its target: two units short of it.
C22_Witness ==
    /\ ev.kind = "physics"
    /\ isMovingFastRef
    /\ smooth.target - smooth.current \in {2, -2}
    /\ smooth.current \notin SmoothStarts

\* C23: a pass leaves every track that none of its detections matched as it
\* was, field for field, and removes no track; a track leaves the registry
\* only in a tick and enters it only in a pass.
C23_Step ==
    /\ ev'.kind \in {"pass", "discarded"} =>
          \A id \in DOMAIN trackersRef :
              /\ id \in DOMAIN trackersRef'
              /\ id \notin { ev'.log[i].id : i \in MatchedAt(ev'.log) } =>
                    trackersRef'[id] = trackersRef[id]
    /\ DOMAIN trackersRef \ DOMAIN trackersRef' # {} => ev'.kind = "tick"
    /\ DOMAIN trackersRef' \ DOMAIN trackersRef # {} => ev'.kind = "pass"

C23_UnmatchedUntouched == [][C23_Step]_vars

\* A pass that matched one track and left another, which had begun to fade,
\* alone.
C23_Witness ==
    /\ ev.kind = "pass"
    /\ MatchedAt(ev.log) # {}
    /\ \E id \in DOMAIN ev.before :
          /\ id \notin { ev.log[i].id : i \in MatchedAt(ev.log) }
          /\ id \in DOMAIN trackersRef
          /\ trackersRef[id] = ev.before[id]
          /\ trackersRef[id].opacity < FullOpacity

\* The result messages a step hands to handleWorkerPredictions.
Handled == worker.replies \ worker'.replies

\* C24: the boxes of a result are multiplied by the scaleFactor that was
\* posted with the detect request the result answers, whatever the analysis
\* width is by then: the pass receives that factor, a match is decided on
\* the scaled corner, a matched box moves toward the scaled box, and a new
\* track stores the scaled box.
C24_Step ==
    \A msg \in Handled :
        LET sf == worker.jobs[msg.id].scaleFactor
            scaled(i) == [k \in 1..4 |-> msg.predictions[i].bbox[k] * sf]
        IN  /\ msg.scaleFactor = sf
            /\ ev'.kind = "pass" =>
                  /\ ev'.scaleFactor = sf
                  /\ \A i \in MatchedAt(ev'.log) :
                        LET id == ev'.log[i].id
                            old == trackersRef[id].lockedBox
                        IN  /\ (scaled(i)[1] - old[1]) * (scaled(i)[1] - old[1])
                                 + (scaled(i)[2] - old[2]) * (scaled(i)[2] - old[2])
                                 < AssociationGate * AssociationGate
                            /\ \A k \in 1..4 :
                                  10 * (trackersRef'[id].lockedBox[k] - old[k])
                                    - LerpFactor(processingIntervalRef)
                                        * (scaled(i)[k] - old[k]) \in -5..5
                  /\ \A i \in CreatedAt(ev'.log) :
                        trackersRef'[ev'.log[i].id].lockedBox = scaled(i)

C24_ScaledByOwnFactor == [][C24_Step]_vars

\* A result was handled after the analysis width had changed: its boxes were
\* scaled by the factor of its request, not by the one a request would get
\* now, and a track was created from it.
C24_Witness ==
    /\ ev.kind = "pass"
    /\ ev.scaleFactor # VideoWidth \div AnalysisWidth(FALSE, networkQualityRef)
    /\ \E i \in CreatedAt(ev.log) :
          /\ ev.log[i].id \in DOMAIN trackersRef
          /\ trackersRef[ev.log[i].id].lockedBox[1] = ev.preds[i].bbox[1] * ev.scaleFactor

\* C25: the zoom level stays within [0.5, 4] under every sequence of zoom
\* steps, tool calls, resets and auto-resets; the field of view that
\* calculate3DPosition reads is above 0 and below 180 degrees, and once the
\* render loop runs and the zoom effect has run it is 75 / zoom level.
C25_FovFollowsZoom ==
    /\ zoomState.level \in MinZoom..MaxZoom
    /\ 0 < cameraFov /\ cameraFov < 180000
    /\ (renderLoops > 0 /\ ~zoomState.effect) => cameraFov = FovFor(zoomState.level)

\* C26: in every state a track whose opacity is below 1.0 is Lost: the clock
\* is more than 500 ms past its last match.  An Active track has opacity 1.0.
C26_FadedIsLost ==
    \A id \in DOMAIN trackersRef :
        trackersRef[id].opacity < FullOpacity => now - trackersRef[id].lastSeenTime > 500

\* A faded track next to a track matched at the present clock reading.
C26_Witness ==
    \E a, b \in DOMAIN trackersRef :
        /\ trackersRef[a].opacity < FullOpacity
        /\ now - trackersRef[a].lastSeenTime > 500
        /\ trackersRef[b].lastSeenTime = now
        /\ trackersRef[b].opacity = FullOpacity

\* The accepted detections of the last pass with no track of their class,
\* among those the pass found and had not yet matched, inside the gate.
Unmatchable ==
    { i \in 1..Len(ev.preds) : ev.log[i].outcome # "dropped" /\ InGate(i) = {} }

\* C27: the candidates of a detection are tracks the pass found in the
\* registry, never tracks it created: every match is to a track that was
\* there before, the k detections that match none of those create k tracks
\* with k different ids, also when class and box are the same, and each new
\* track leaves the pass as its detection made it.
C27_CreatedAreNotCandidates ==
    ev.kind = "pass" =>
        /\ \A i \in MatchedAt(ev.log) : ev.log[i].id \in DOMAIN ev.before
        /\ \A i \in Unmatchable : ev.log[i].outcome = "created"
        /\ Cardinality({ ev.log[i].id : i \in Unmatchable }) = Cardinality(Unmatchable)
        /\ \A i \in CreatedAt(ev.log) :
              LET tr == trackersRef[ev.log[i].id]
              IN  /\ tr.lockedBox = [k \in 1..4 |-> ev.preds[i].bbox[k] * ev.scaleFactor]
                  /\ tr.class = ev.preds[i].class
                  /\ tr.gesture = ev.preds[i].gesture
                  /\ tr.lastSeenTime = now
                  /\ tr.opacity = FullOpacity

\* Two detections of the same class and box in a pass that found no track:
\* two tracks.
C27_Witness ==
    /\ ev.kind = "pass"
    /\ ev.before = NoRegistry
    /\ Len(ev.preds) = 2
    /\ ev.preds[1] = ev.preds[2]
    /\ ev.log[1].outcome = "created"
    /\ ev.log[2].outcome = "created"
    /\ ev.log[1].id # ev.log[2].id
    /\ Cardinality(DOMAIN trackersRef) = 2

\* C28: a bitmap sendFrame created was transferred to the worker or closed
\* by sendFrame, one of the two; the worker closes a bitmap it received once
\* and posts at most one result for it, none when the models were not loaded
\* or the inference threw, and until the handler has ended it has done
\* neither.
C28_OneCloseOneResult ==
    \A id \in 1..Len(worker.bitmaps) :
        LET b == worker.bitmaps[id]
        IN  /\ \/ b.transferred /\ b.senderCloses = 0
               \/ ~b.transferred /\ b.senderCloses = 1
            /\ b.workerCloses <= 1
            /\ b.results <= 1
            /\ ~b.transferred =>
                  b.workerCloses = 0 /\ b.results = 0 /\ b.end = "none"
                  /\ id \notin DOMAIN worker.jobs
            /\ b.end \in {"notLoaded", "threw"} =>
                  b.workerCloses = 1 /\ b.results = 0
                  /\ id \notin DOMAIN worker.jobs
                  /\ \A msg \in worker.replies : msg.id # id
            /\ b.end = "answered" => b.workerCloses = 1 /\ b.results = 1
            /\ b.transferred /\ b.end = "none" =>
                  b.workerCloses = 0 /\ b.results = 0
                  /\ id \in DOMAIN worker.jobs
            /\ Cardinality({ msg \in worker.replies : msg.id = id }) <= b.results

\* sendFrame closed one bitmap itself and transferred another, for which the
\* worker, models not loaded or inference thrown, closed it and posted nothing.
C28_Witness ==
    \E i, j \in 1..Len(worker.bitmaps) :
        /\ ~worker.bitmaps[i].transferred
        /\ worker.bitmaps[i].senderCloses = 1
        /\ worker.bitmaps[j].transferred
        /\ worker.bitmaps[j].end \in {"notLoaded", "threw"}
        /\ worker.bitmaps[j].workerCloses = 1

\* -------------------------------------------------------- analysis mode
\* The analysis mode button, and the CYCLE_ANALYSIS command of the
\* controlInterface tool: setAnalysisMode(p => ..).
CycleAnalysisMode ==
    /\ analysisMode' = NextAnalysisMode(analysisMode)
    /\ ev' = Event("cycleAnalysis", <<>>, 0, <<>>, {}, NoRegistry)
    /\ UNCHANGED << now, trackersRef, labelsRef, nextIdRef, lastObjectSetRef,
                    lastAnalysisTimeRef, isMovingFastRef, processingIntervalRef,
                    sceneTimers, sceneDescription, nextLocalObjects, assigned,
                    stream, captureVars, inFlight, net, live, sourceOffline,
                    geoIn, geoOut,
                    smooth, zoomState, cameraFov, sceneHist, worker >>

\* Analysis mode: the passes and report callbacks of the scene, while the
\* user cycles the mode.
NextMode ==
    \/ \E dt \in SceneDelays, preds \in SceneBatches, sf \in ScaleFactors :
          now + dt <= SceneLimit /\ ScenePass(dt, preds, sf)
    \/ SceneTimerFire
    \/ CycleAnalysisMode

SpecMode == Init /\ [][NextMode]_vars

\* C29: a report callback of checkSceneChange hands a summary to
\* onSceneChange only while the analysis mode is AUTO or DETAILED; in SILENT
\* the scene description is left as it is.  The callback looked at is the one
\* that runs right after the pass that scheduled it, the mode being then what
\* it was during the pass.
C29_Step ==
    (ev.kind = "pass" /\ sceneTimers # <<>> /\ sceneTimers' = Tail(sceneTimers)
        /\ sceneDescription' # sceneDescription)
    => Summarises(analysisMode)

C29_SilentEmitsNothing == [][C29_Step]_vars

\* ---------------------------------------------------------- NetworkService
\* Sockets the model lets one service hold at a time: this.ws and the
\* sockets that close() has left closing.
MaxSockets == 3

\* private maxRetries: number = 3
maxRetries == 3

\* Math.min(5000 * this.retryCount, 30000)
MaxDelay == 30000
ReconnectDelay(retryCount) ==
    IF 5000 * retryCount < MaxDelay THEN 5000 * retryCount ELSE MaxDelay

\* retryCount is read only by the comparison with maxRetries and by the
\* delay of the timer: from the count that first gives the longest delay on,
\* counts behave alike and are kept as one.
RetryCap == (MaxDelay \div 5000) + 1

\* The urls setUrl is given: the default one, one of another host, and one
\* the WebSocket constructor rejects with a SyntaxError.
ServerUrls == {"localhost", "remote", "invalid"}

\* readyState === WebSocket.OPEN || readyState === WebSocket.CONNECTING
IsLiveOpenOnly(readyState) == readyState = "OPEN"
IsLive(readyState) == readyState \in {"OPEN", "CONNECTING"}

\* this.notify('STATUS', ..), recorded in what the running handler did.
Notify(n, status) == [n EXCEPT !.did = @ \cup {status}]

\* if (this.reconnectTimeout) return
HandleIsFree(reconnectTimeout) == reconnectTimeout = "null"

\* scheduleReconnect(): a timer is armed unless the handle holds one.
ScheduleReconnect(n) ==
    IF ~HandleIsFree(n.reconnectTimeout) THEN n
    ELSE LET count == IF n.retryCount < RetryCap THEN n.retryCount + 1
                      ELSE n.retryCount
         IN  [n EXCEPT !.retryCount = count,
                       !.reconnectTimeout = "set",
                       !.timers = @ + 1,
                       !.lastDelay = ReconnectDelay(count),
                       !.did = @ \cup {"armed"}]

\* connect()
ConnectService(n) ==
    LET n1 == [n EXCEPT !.isExplicitlyClosed = FALSE]
    IN  IF n1.ws # 0 /\ IsLive(n1.sockets[n1.ws]) THEN n1
        ELSE IF n1.serverUrl = "localhost" /\ n1.retryCount >= maxRetries
             THEN Notify(n1, "offline")
        ELSE IF n1.serverUrl = "invalid"
             THEN ScheduleReconnect(Notify([n1 EXCEPT !.did = @ \cup {"threw"},
                                                      !.urlPending = FALSE],
                                           "offline"))
        ELSE [n1 EXCEPT !.sockets = Append(@, "CONNECTING"),
                        !.ws = Len(n1.sockets) + 1,
                        !.urlPending = FALSE,
                        !.did = @ \cup {"created"}]

\* this.ws.close(): a socket that is connecting or open starts closing, a
\* socket that is closing or closed stays as it is.
CloseSocket(n) ==
    IF n.ws # 0 /\ n.sockets[n.ws] \in {"OPEN", "CONNECTING"}
    THEN [n EXCEPT !.sockets[n.ws] = "CLOSING"]
    ELSE n

\* clearTimeout(this.reconnectTimeout): the timer of the handle is no
\* longer armed.
ClearTimeoutNot(timers) == timers
ClearTimeout(timers) == 0

\* A closed socket this.ws no longer refers to raises no event and is not
\* read again: it is dropped, and the sockets that remain keep their order.
Forget(n) ==
    LET idx == { i \in 1..Len(n.sockets) : i = n.ws \/ n.sockets[i] # "CLOSED" }
        rank(i) == Cardinality({ j \in idx : j <= i })
    IN  [n EXCEPT !.sockets = [k \in 1..Cardinality(idx) |->
                                  n.sockets[CHOOSE i \in idx : rank(i) = k]],
                  !.ws = IF n.ws = 0 THEN 0 ELSE rank(n.ws)]

\* The state the service is left in by a handler, and what the handler
\* leaves alone.  room is the number of sockets the step may leave.
NetFrame(n, room) ==
    /\ net' = Forget(n)
    /\ Len(net'.sockets) <= room
    /\ UNCHANGED << now, trackersRef, labelsRef, nextIdRef, lastObjectSetRef,
                    lastAnalysisTimeRef, isMovingFastRef, processingIntervalRef,
                    sceneTimers, sceneDescription, nextLocalObjects, assigned,
                    stream, captureVars, inFlight, sourceOffline, geoIn, geoOut,
                    appVars, live, sceneHist, worker >>

\* The sockets a call of the application may leave: one less than the
\* service may hold, the last being for the socket of the reconnect timer.
CallRoom == MaxSockets - 1

\* The service as a handler finds it: nothing done yet.
Entered == [net EXCEPT !.did = {}]

\* networkRef.current?.connect()
Connect ==
    /\ ev' = Event("connect", <<>>, 0, <<>>, {}, NoRegistry)
    /\ NetFrame(ConnectService([Entered EXCEPT !.quiet = FALSE]), CallRoom)

\* The callback of the reconnect timer.
ReconnectTimerFire ==
    /\ net.timers > 0
    /\ ev' = Event("reconnectTimer", <<>>, 0, <<>>, {}, NoRegistry)
    /\ NetFrame(ConnectService([Entered EXCEPT !.reconnectTimeout = "null",
                                               !.timers = @ - 1]),
                MaxSockets)

\* setUrl(url)
SetUrl(url) ==
    /\ ev' = Event("setUrl", <<>>, 0, <<>>, {}, NoRegistry)
    /\ NetFrame(
             LET n1 == [Entered EXCEPT !.serverUrl = url, !.retryCount = 0,
                                       !.quiet = FALSE, !.failures = 0,
                                       !.lastDelay = 0, !.urlPending = TRUE]
             IN  IF n1.ws # 0 THEN CloseSocket(n1) ELSE ConnectService(n1),
             CallRoom)

\* disconnect(): the timer is cleared, its handle is kept.
Disconnect ==
    /\ ev' = Event("disconnect", <<>>, 0, <<>>, {}, NoRegistry)
    /\ NetFrame(
             CloseSocket([Entered EXCEPT
                            !.isExplicitlyClosed = TRUE,
                            !.quiet = TRUE,
                            !.timers = IF net.reconnectTimeout # "null"
                                       THEN ClearTimeout(@) ELSE @]),
             MaxSockets)

\* The open event of socket i, and this.ws.onopen.
SocketOpen(i) ==
    /\ i \in 1..Len(net.sockets)
    /\ net.sockets[i] = "CONNECTING"
    /\ ev' = Event("open", <<>>, 0, <<>>, {}, NoRegistry)
    /\ NetFrame(
                Notify([Entered EXCEPT
                          !.sockets[i] = "OPEN",
                          !.retryCount = 0,
                          !.failures = 0,
                          !.lastDelay = 0,
                          !.timers = IF net.reconnectTimeout # "null"
                                     THEN ClearTimeout(@) ELSE @,
                          !.reconnectTimeout = "null"],
                       "online"),
                MaxSockets)

\* The close event of socket i, for a connection that failed, was closed by
\* the server or was closed by close(), and this.ws.onclose.
SocketClose(i) ==
    /\ i \in 1..Len(net.sockets)
    /\ net.sockets[i] # "CLOSED"
    /\ ev' = Event("close", <<>>, 0, <<>>, {}, NoRegistry)
    /\ NetFrame(
                LET n1 == [Entered EXCEPT
                             !.sockets[i] = "CLOSED",
                             !.failures = IF net.sockets[i] = "CONNECTING" /\ @ < RetryCap
                                          THEN @ + 1 ELSE @]
                IN  IF n1.isExplicitlyClosed THEN n1
                    ELSE ScheduleReconnect(Notify(n1, "offline")),
                MaxSockets)

\* NetworkService: the calls of the application, the reconnect timer and
\* the events of every socket, in any order.
NextNet ==
    \/ Connect
    \/ ReconnectTimerFire
    \/ \E url \in ServerUrls : SetUrl(url)
    \/ Disconnect
    \/ \E i \in 1..MaxSockets : SocketOpen(i)
    \/ \E i \in 1..MaxSockets : SocketClose(i)

SpecNet == Init /\ [][NextNet]_vars

\* The sockets of the service that are open or connecting.
LiveSockets == { i \in 1..Len(net.sockets) : net.sockets[i] \in {"OPEN", "CONNECTING"} }

\* C30: at most one socket of the service is open or connecting, and it is
\* the one this.ws refers to: connect() has never made a socket next to a
\* live one.
C30_OneLiveSocket ==
    /\ Cardinality(LiveSockets) <= 1
    /\ LiveSockets \subseteq {net.ws}

\* connect() was called while the first socket, closed by setUrl, was still
\* closing, and made the second socket.
C30_Witness ==
    /\ ev.kind = "connect"
    /\ Len(net.sockets) = 2
    /\ net.sockets[1] = "CLOSING"
    /\ net.sockets[2] = "CONNECTING"
    /\ net.ws = 2

\* A socket that close() has left closing gets its close event.
ClosingCloses ==
    \E i \in 1..MaxSockets :
        /\ IF i <= Len(net.sockets) THEN net.sockets[i] = "CLOSING" ELSE FALSE
        /\ SocketClose(i)

\* NetworkService with its scheduling: an armed timer fires, and a closing
\* socket closes.
SpecNetLive ==
    /\ Init
    /\ [][NextNet]_vars
    /\ WF_vars(ReconnectTimerFire)
    /\ WF_vars(ClosingCloses)

\* The last handler saw the connection lost without disconnect() being the
\* cause: a close event while isExplicitlyClosed is false, or a constructor
\* that threw.
ConnectionLost ==
    \/ ev.kind = "close" /\ ~net.isExplicitlyClosed
    \/ ev.kind \in {"connect", "setUrl", "reconnectTimer"} /\ "threw" \in net.did

\* C31: when the connection is lost without disconnect() being the cause the
\* listeners are told STATUS offline, never more than one reconnect timer is
\* armed, and the reconnect timer eventually makes a connect attempt, unless
\* disconnect() is called or a connection opens first; after a disconnect()
\* and a new connect() as well.
C31_ReconnectsAfterLoss ==
    /\ [](ConnectionLost => "offline" \in net.did)
    /\ [](net.timers <= 1)
    /\ []((ev.kind \in {"close", "connect", "setUrl"} /\ ConnectionLost)
            => <>(ev.kind \in {"reconnectTimer", "disconnect", "open"}))

\* C32: from disconnect() until the next connect() or setUrl() no reconnect
\* timer is armed or fires, no handler constructs a socket, no socket is
\* open or connecting, and no handler, the close handler of the socket
\* included, notifies a STATUS.
C32_QuietAfterDisconnect ==
    net.quiet =>
        /\ net.timers = 0
        /\ ev.kind \in {"disconnect", "close"}
        /\ net.did = {}
        /\ net.isExplicitlyClosed
        /\ \A i \in 1..Len(net.sockets) : ~IsLive(net.sockets[i])

\* disconnect() was called on a service with a socket, and the socket has
\* now closed: the handle of the cleared timer is still set.
C32_Witness ==
    /\ net.quiet
    /\ ev.kind = "close"
    /\ net.ws # 0
    /\ net.sockets[net.ws] = "CLOSED"
    /\ net.reconnectTimeout = "set"

\* C33: with a localhost url, once maxRetries connections in a row have
\* failed (no open event and no setUrl() between them) connect() constructs
\* no further socket, and where it finds the counter at maxRetries it only
\* notifies STATUS offline; the counter goes back to 0 only in onopen and in
\* setUrl(); and the delay of a timer is min(5000 * retryCount, 30000), not
\* shorter than the delay of the timer armed before it for the same run of
\* failures and never longer than 30000 ms.
C33_Step ==
    /\ ("created" \in net'.did /\ net'.serverUrl = "localhost" /\ ev'.kind # "setUrl")
          => net.failures < maxRetries
    /\ (ev'.kind \in {"connect", "reconnectTimer"} /\ net.serverUrl = "localhost"
          /\ net.retryCount >= maxRetries
          /\ (IF net.ws = 0 THEN TRUE ELSE ~IsLive(net.sockets[net.ws])))
          => net'.did = {"offline"}
    /\ (net'.retryCount = 0 /\ net.retryCount # 0) => ev'.kind \in {"open", "setUrl"}
    /\ "armed" \in net'.did
          => /\ net'.lastDelay = ReconnectDelay(net'.retryCount)
             /\ net'.lastDelay >= net.lastDelay
             /\ net'.lastDelay <= MaxDelay

C33_RetryLimit == [][C33_Step]_vars

\* C34: after setUrl(url) a socket for the new url is eventually
\* constructed, at once or by the reconnect that the close of the current
\* socket schedules, unless disconnect() is called first.
C34_SetUrlConnects == [](net.urlPending => <>(~net.urlPending \/ net.quiet))

\* ------------------------------------------------------------ live session
\* if (reconnectTimeoutRef.current) clearTimeout(reconnectTimeoutRef.current);
\* reconnectTimeoutRef.current = setTimeout(.., ..)
ArmReconnect(l) == [l EXCEPT !.reconnectTimeoutRef = "set", !.timers = 1]

\* connectedRef.current = false; sessionPromiseRef.current = null, in onclose
\* and onerror.
LostKeepsRefs(l) == [l EXCEPT !.lostSince = TRUE]
Lost(l) ==
    [l EXCEPT !.connectedRef = FALSE, !.sessionPromiseRef = 0, !.lostSince = TRUE]

\* The slots that hold no session any more.
FreeSlots(l) == { s \in 1..MaxSessions : l.sessions[s].state = "closed" }

\* connectToGemini() up to its await.  throws: new GoogleGenAI or
\* ai.live.connect throws, and the catch block runs at once.
ConnectToGemini(l, throws) ==
    LET l0 == [l EXCEPT !.tick = ~@, !.did = @ \cup {"attempt"}]
    IN  IF ~l0.online
        THEN ArmReconnect([l0 EXCEPT !.did = @ \cup {"offline"}])
        ELSE LET l1 == [l0 EXCEPT !.sessionPromiseRef = 0,
                                  !.connectedRef = FALSE,
                                  !.timers = 0]
             IN  IF throws
                 THEN ArmReconnect([l1 EXCEPT !.did = @ \cup {"failed"}])
                 ELSE LET s == CHOOSE x \in FreeSlots(l1) :
                                   \A y \in FreeSlots(l1) : x <= y
                      IN  [l1 EXCEPT
                             !.sessions[s] = [state |-> "connecting", queued |-> FALSE],
                             !.latest = s,
                             !.sessionPromiseRef = s,
                             !.did = @ \cup {"created"}]

\* A call of connectToGemini the model can follow: one that ends in the
\* offline branch or in the catch block, or one with a slot for its session.
CanConnect(throws) == throws \/ ~live.online \/ FreeSlots(live) # {}

\* What the handlers of the live session leave alone.
LiveFrame ==
    UNCHANGED << now, trackersRef, labelsRef, nextIdRef, lastObjectSetRef,
                 lastAnalysisTimeRef, isMovingFastRef, processingIntervalRef,
                 sceneTimers, sceneDescription, nextLocalObjects, assigned,
                 stream, captureVars, inFlight, sourceOffline, geoIn, geoOut,
                 appVars, net, sceneHist, worker >>

\* The refs as a handler finds them: nothing done yet.
LiveEntered == [live EXCEPT !.did = {}]

\* handleBootComplete: await connectToGemini()
HandleBootComplete(throws) ==
    /\ ~live.booted
    /\ CanConnect(throws)
    /\ live' = ConnectToGemini([LiveEntered EXCEPT !.booted = TRUE], throws)
    /\ ev' = Event("bootComplete", <<>>, 0, <<>>, {}, NoRegistry)
    /\ LiveFrame

\* The callback of the timer of reconnectTimeoutRef.
GeminiTimerFire(throws) ==
    /\ live.timers > 0
    /\ CanConnect(throws)
    /\ live' = ConnectToGemini([LiveEntered EXCEPT !.timers = @ - 1], throws)
    /\ ev' = Event("geminiTimer", <<>>, 0, <<>>, {}, NoRegistry)
    /\ LiveFrame

\* The session of slot s opens: callbacks.onopen runs, then its promise
\* resolves and the sends that waited for it are made.
SessionOpen(s) ==
    /\ live.sessions[s].state = "connecting"
    /\ live' = [LiveEntered EXCEPT
                  !.sessions[s] = [state |-> "open", queued |-> FALSE],
                  !.connectedRef = TRUE,
                  !.audioInput = TRUE,
                  !.lostSince = FALSE,
                  !.did = IF live.sessions[s].queued THEN {"open", "sent"}
                          ELSE {"open"}]
    /\ ev' = Event("sessionOpen", <<>>, 0, <<>>, {}, NoRegistry)
    /\ LiveFrame

\* The connection of slot s fails before it opens: callbacks.onerror runs,
\* the promise is rejected and the catch block of its connectToGemini runs.
SessionConnectFails(s) ==
    /\ live.sessions[s].state = "connecting"
    /\ live' = ArmReconnect(Lost([LiveEntered EXCEPT
                                    !.sessions[s] = [state |-> "closed",
                                                     queued |-> FALSE],
                                    !.did = {"error", "failed"}]))
    /\ ev' = Event("sessionFails", <<>>, 0, <<>>, {}, NoRegistry)
    /\ LiveFrame

\* callbacks.onerror of the open session of slot s.
SessionError(s) ==
    /\ live.sessions[s].state = "open"
    /\ live' = ArmReconnect(Lost([LiveEntered EXCEPT
                                    !.sessions[s].state = "errored",
                                    !.did = {"error"}]))
    /\ ev' = Event("sessionError", <<>>, 0, <<>>, {}, NoRegistry)
    /\ LiveFrame

\* callbacks.onclose of the session of slot s, open or after its error.
SessionClose(s) ==
    /\ live.sessions[s].state \in {"open", "errored"}
    /\ live' = Lost([LiveEntered EXCEPT
                       !.sessions[s].state = "closed",
                       !.did = {"close"}])
    /\ ev' = Event("sessionClose", <<>>, 0, <<>>, {}, NoRegistry)
    /\ LiveFrame

\* connectedRef.current && sessionPromiseRef.current
MaySend(l) == l.connectedRef /\ l.sessionPromiseRef # 0

\* sessionPromiseRef.current.then(session => session.sendRealtimeInput(..)):
\* made at once when the promise has resolved, when it resolves otherwise.
SendRealtimeInput(l) ==
    IF ~MaySend(l) THEN l
    ELSE IF l.sessions[l.sessionPromiseRef].state = "connecting"
         THEN [l EXCEPT !.sessions[l.sessionPromiseRef].queued = TRUE,
                        !.did = @ \cup {"queued"}]
         ELSE [l EXCEPT !.did = @ \cup {"sent"}]

\* processor.onaudioprocess
AudioProcess ==
    /\ live.audioInput
    /\ live' = SendRealtimeInput(LiveEntered)
    /\ ev' = Event("audioProcess", <<>>, 0, <<>>, {}, NoRegistry)
    /\ LiveFrame

\* handleFrameCapture(base64, quality)
HandleFrameCapture ==
    /\ live' = SendRealtimeInput(LiveEntered)
    /\ ev' = Event("frameCapture", <<>>, 0, <<>>, {}, NoRegistry)
    /\ LiveFrame

\* navigator.onLine changes.
OnlineChanges ==
    /\ live' = [LiveEntered EXCEPT !.online = ~@]
    /\ ev' = Event("onlineChanges", <<>>, 0, <<>>, {}, NoRegistry)
    /\ LiveFrame

\* Live session: the boot, the reconnect timer, the events of every session
\* in any order, the microphone, the frame capture and the network of the
\* browser.
NextLive ==
    \/ \E throws \in BOOLEAN : HandleBootComplete(throws)
    \/ \E throws \in BOOLEAN : GeminiTimerFire(throws)
    \/ \E s \in 1..MaxSessions : SessionOpen(s)
    \/ \E s \in 1..MaxSessions : SessionConnectFails(s)
    \/ \E s \in 1..MaxSessions : SessionError(s)
    \/ \E s \in 1..MaxSessions : SessionClose(s)
    \/ AudioProcess
    \/ HandleFrameCapture
    \/ OnlineChanges

SpecLive == Init /\ [][NextLive]_vars

\* The live session with its scheduling: an armed timer fires.
SpecLiveFair ==
    /\ Init
    /\ [][NextLive]_vars
    /\ WF_vars(\E throws \in BOOLEAN : GeminiTimerFire(throws))

\* C35: an audio chunk or a video frame is passed to a session only in a
\* state where connectedRef is true and sessionPromiseRef holds a promise,
\* and never between an onclose or onerror and the next onopen.
C35_SendsOnlyConnected ==
    "sent" \in live.did =>
        /\ live.connectedRef
        /\ live.sessionPromiseRef # 0
        /\ ~live.lostSince

\* A frame was passed to the session after a session had been lost and
\* another had opened.
C35_Witness ==
    /\ ev.kind = "frameCapture"
    /\ "sent" \in live.did
    /\ \E s \in 1..MaxSessions : live.sessions[s].state = "errored"
    /\ live.sessions[live.latest].state = "open"
    /\ live.sessionPromiseRef = live.latest

\* The last handler saw the live session lost: the browser was offline at
\* connect time, the connect call failed, onerror ran or onclose ran.
SessionLost == live.did \cap {"offline", "failed", "error", "close"} # {}

\* C36: whenever the live session is lost, connectToGemini is eventually
\* called again.
C36_ReconnectsAfterLoss ==
    /\ [](SessionLost /\ live.tick => <>(~live.tick))
    /\ [](SessionLost /\ ~live.tick => <>(live.tick))

\* C37: whenever the session created last is open, connectedRef is true and
\* sessionPromiseRef holds the promise of that session, whatever callbacks of
\* earlier sessions have run since it was created.
C37_StateOfLatestSession ==
    (live.latest # 0 /\ live.sessions[IF live.latest = 0 THEN 1 ELSE live.latest].state = "open")
    => /\ live.connectedRef
       /\ live.sessionPromiseRef = live.latest
====
